---------------------------- MODULE Spec2Model ----------------------------
(***************************************************************************)
(* A model of SteeringLLM's core:                                          *)
(*   - SteeringModel / ActivationHook (core/steering_model.py): the        *)
(*     per-layer forward hooks and the active_hooks dictionary;            *)
(*   - ActivationHook.register.hook_fn: the function a hook applies to a   *)
(*     block's output;                                                     *)
(*   - SteeringVector.save / load (core/steering_vector.py): the two       *)
(*     files of a saved vector;                                            *)
(*   - SteeringVector construction and VectorComposition                   *)
(*     (core/vector_composition.py): weighted_sum, detect_conflicts and    *)
(*     orthogonalize, the latter in float32 arithmetic;                    *)
(*   - Discovery (core/discovery.py): the three methods over               *)
(*     _extract_activations, batch by batch;                               *)
(*   - MODEL_REGISTRY and SteeringModel._detect_layers.                    *)
(* The specifications of the module: Spec (the SteeringModel operations),  *)
(* SpecHook (hook_fn on the forms of a block's output), SpecSave (save,    *)
(* step by step, against load), SpecVec and SpecOrtho (the vector          *)
(* functions), SpecDisc (a Discovery call) and SpecLayers (the registry    *)
(* and layer resolution).                                                  *)
(***************************************************************************)
EXTENDS Integers, Sequences, FiniteSets, TLC

VARIABLES
    active_hooks,   \* SteeringModel.active_hooks: layer key -> ActivationHook
    blocks,         \* per block, the hook functions registered on it (module._forward_hooks)
    tokenizer,      \* SteeringModel.tokenizer: "set" or "None"
    call,           \* the last SteeringModel call: its operation, arguments and outcome
    pre,            \* active_hooks and blocks as they were when that call started
    hook_in,        \* a block output handed to hook_fn, with the hook's vector and alpha
    hook_ret,       \* what hook_fn returned for it
    fs,             \* the file system: file name -> content
    save_pc,        \* where the running save() stands
    save_arg,       \* the vector and path of the running save()
    loaded,         \* the outcome of the last load()
    saved,          \* per path prefix, the vector of the last save() completed under
                    \* it, unless a later save() under that prefix has begun
    last_saved,     \* the prefix of the save() just completed, while no save() has
                    \* begun since
    vec_in,         \* a call of a SteeringVector or VectorComposition function: its
                    \* name and arguments
    vec_out,        \* what that call returned or raised
    disc_in,        \* a call of a Discovery method: its name and arguments
    disc_pc,        \* where that call stands
    activations_list, \* _extract_activations: the rows collected so far
    pos_activations,  \* what the extraction over the positive texts returned
    neg_activations,  \* what the extraction over the negative texts returned
    target_hooks,   \* how many forward hooks of Discovery the target block carries
    registrations,  \* how many hooks the call has registered so far
    forward_passes, \* how many forward passes the call has run so far
    disc_out,       \* what the call returned or raised
    registry,       \* MODEL_REGISTRY as it stands
    hf_model,       \* SteeringModel.model: the wrapped model
    layer_cache,    \* SteeringModel._layer_modules
    detect_first,   \* outcome of the first layer resolution on this instance
    detect_ret,     \* outcome of the latest layer resolution
    reg_call        \* the latest registration of an architecture

vars == << active_hooks, blocks, tokenizer, call, pre,
           hook_in, hook_ret, fs, save_pc, save_arg, loaded, saved, last_saved,
           vec_in, vec_out,
           disc_in, disc_pc, activations_list, pos_activations, neg_activations,
           target_hooks, registrations, forward_passes, disc_out,
           registry, hf_model, layer_cache, detect_first, detect_ret, reg_call >>

smVars == << active_hooks, blocks, tokenizer, call, pre >>
hookVars == << hook_in, hook_ret >>
saveVars == << fs, save_pc, save_arg, loaded, saved, last_saved >>
vecVars == << vec_in, vec_out >>
discVars == << disc_in, disc_pc, activations_list, pos_activations,
              neg_activations, target_hooks, registrations, forward_passes,
              disc_out >>
layerVars == << registry, hf_model, layer_cache, detect_first, detect_ret, reg_call >>

---------------------------------------------------------------------------
(* Bounds of the model *)

\* number of transformer blocks of the wrapped model (len(layers))
NumLayers == 2
\* model.config.hidden_size of the wrapped model
HiddenSize == 2
\* longest vector list handed to apply_multiple_steering
MaxVectors == 2

---------------------------------------------------------------------------
(* Values *)

\* The cached index -> block mapping of a model whose layers were detected.
layer_modules == 0 .. (NumLayers - 1)

\* Layer indexes callers pass: every block, and one index past the last.
LayerArgs == 0 .. NumLayers

\* 1-D tensors: constant ones, of the model's hidden size or one longer.
Tensors == { [i \in 1..n |-> 1] : n \in {HiddenSize, HiddenSize + 1} }

Methods == {"mean_difference", "caa"}

\* Where the vectors come from: the discovery method, the identifier of the
\* model they were extracted from, and the magnitude they were constructed
\* with (the norm of the tensors above in whole units, or a number the caller
\* supplied).
Origins ==
    { [method |-> "mean_difference", model_name |-> "gpt2", magnitude |-> 1],
      [method |-> "caa", model_name |-> "llama", magnitude |-> 3] }

\* SteeringVector values handed to the SteeringModel operations.
Vectors ==
    { [layer |-> l, tensor |-> t, method |-> o.method, model_name |-> o.model_name, magnitude |-> o.magnitude] :
        l \in LayerArgs, t \in Tensors, o \in Origins }

\* The vectors put into lists for apply_multiple_steering: one per layer
\* index, and one of the wrong length for layer 0.
ListVectors ==
    { v \in Vectors : /\ v.method = "mean_difference"
                      /\ (Len(v.tensor) = HiddenSize \/ v.layer = 0) }

NoVector == [layer |-> 0, tensor |-> << >>, method |-> "none", model_name |-> "", magnitude |-> 0]

\* alpha arguments: two floats and a string.
Alphas == { [kind |-> "float", val |-> 1],
            [kind |-> "float", val |-> 2],
            [kind |-> "str", val |-> 0] }

NoAlpha == [kind |-> "none", val |-> 0]

\* isinstance(alpha, (int, float)); bool is a subclass of int in Python
IsNumeric(alpha) == alpha.kind \in {"int", "float", "bool"}

\* f"layer_{vector.layer}"
layer_key(layer) == << "layer", layer >>

\* int(layer_key.split("_")[1])
layer_idx(key) == key[2]

SeqsUpTo(S, n) == UNION { [1..k -> S] : k \in 0..n }

\* The alphas argument of apply_multiple_steering: None or a list.
NoneAlphas == [given |-> FALSE, list |-> << >>]
GivenAlphas(list) == [given |-> TRUE, list |-> list]

\* The alpha lists tried with a list of n vectors: None, every list of n
\* alphas that are the float 2.0 or a string, and a list of floats that is
\* one alpha too long.
AlphaLists(n) ==
    {NoneAlphas}
      \cup { GivenAlphas(l) : l \in [1..n -> { a \in Alphas : a.val # 1 }] }
      \cup { GivenAlphas([i \in 1..(n + 1) |-> [kind |-> "float", val |-> 1]]) }

---------------------------------------------------------------------------
(* ActivationHook *)

\* ActivationHook.__init__: handle is None until register()
ActivationHook(module, vector, alpha) ==
    [module |-> module, vector |-> vector, alpha |-> alpha, handle |-> FALSE]

\* The closure hook_fn that register() hands to the block.
HookFn(hook) == [vector |-> hook.vector, alpha |-> hook.alpha]

\* A sequence without its first element equal to x.
RECURSIVE RemoveFirst(_, _)
RemoveFirst(s, x) ==
    IF s = << >> THEN << >>
    ELSE IF Head(s) = x THEN Tail(s)
    ELSE << Head(s) >> \o RemoveFirst(Tail(s), x)

\* ActivationHook.register on a hook whose handle is None:
\* module.register_forward_hook(hook_fn) and the handle kept.
register(bl, hook) ==
    [ hook   |-> [hook EXCEPT !.handle = TRUE],
      blocks |-> [bl EXCEPT ![hook.module] = Append(@, HookFn(hook))] ]

\* A remove that drops the handle without calling its remove().
remove_drops_handle(bl, hook) == bl

\* ActivationHook.remove: handle.remove() when there is a handle.
remove(bl, hook) ==
    IF hook.handle
    THEN [bl EXCEPT ![hook.module] = RemoveFirst(@, HookFn(hook))]
    ELSE bl

---------------------------------------------------------------------------
(* SteeringModel operations, as functions of the state                     *)
(* st = [active_hooks, blocks] giving [st, result].                        *)

State(ah, bl) == [active_hooks |-> ah, blocks |-> bl]
Ret(st, result) == [st |-> st, result |-> result]

\* {}: the empty dict
EmptyDict == [k \in {} |-> 0]

\* dict without a key
DictPop(d, k) == [x \in (DOMAIN d) \ {k} |-> d[x]]

\* apply_steering without the check for steering already active on the layer
apply_steering_stacking(st, vector, alpha) ==
    IF ~IsNumeric(alpha)
    THEN Ret(st, "InvalidAlpha")
    ELSE IF vector.layer \notin layer_modules
    THEN Ret(st, "InvalidLayer")
    ELSE IF Len(vector.tensor) # HiddenSize
    THEN Ret(st, "DimensionMismatch")
    ELSE LET r == register(st.blocks,
                           ActivationHook(vector.layer, vector, alpha))
         IN  Ret(State((layer_key(vector.layer) :> r.hook) @@ st.active_hooks,
                       r.blocks),
                 "ok")

\* apply_steering that raises the dimension error only after registering
apply_steering_late_check(st, vector, alpha) ==
    IF ~IsNumeric(alpha)
    THEN Ret(st, "InvalidAlpha")
    ELSE IF layer_key(vector.layer) \in DOMAIN st.active_hooks
    THEN Ret(st, "AlreadySteered")
    ELSE IF vector.layer \notin layer_modules
    THEN Ret(st, "InvalidLayer")
    ELSE LET r == register(st.blocks,
                           ActivationHook(vector.layer, vector, alpha))
             applied == State((layer_key(vector.layer) :> r.hook) @@ st.active_hooks,
                              r.blocks)
         IN  IF Len(vector.tensor) # HiddenSize
             THEN Ret(applied, "DimensionMismatch")
             ELSE Ret(applied, "ok")

\* SteeringModel.apply_steering
apply_steering(st, vector, alpha) ==
    IF ~IsNumeric(alpha)
    THEN Ret(st, "InvalidAlpha")                       \* ValueError
    ELSE IF layer_key(vector.layer) \in DOMAIN st.active_hooks
    THEN Ret(st, "AlreadySteered")                     \* RuntimeError
    ELSE IF vector.layer \notin layer_modules
    THEN Ret(st, "InvalidLayer")                       \* ValueError
    ELSE IF Len(vector.tensor) # HiddenSize
    THEN Ret(st, "DimensionMismatch")                  \* ValueError
    ELSE LET r == register(st.blocks,
                           ActivationHook(vector.layer, vector, alpha))
         IN  Ret(State((layer_key(vector.layer) :> r.hook) @@ st.active_hooks,
                       r.blocks),
                 "ok")

\* for vector, alpha in zip(vectors, alphas): self.apply_steering(...)
RECURSIVE apply_each(_, _, _)
apply_each(st, vectors, alphas) ==
    IF vectors = << >> \/ alphas = << >>
    THEN Ret(st, "ok")
    ELSE LET r == apply_steering(st, Head(vectors), Head(alphas))
         IN  IF r.result # "ok"
             THEN r
             ELSE apply_each(r.st, Tail(vectors), Tail(alphas))

\* apply_multiple_steering without the check for conflicts with existing hooks
apply_multiple_steering_unchecked(st, vectors, alphas) ==
    IF vectors = << >>
    THEN Ret(st, "EmptyVectors")
    ELSE LET als == IF alphas.given
                    THEN alphas.list
                    ELSE [i \in 1..Len(vectors) |-> [kind |-> "float", val |-> 1]]
         IN  IF Len(als) # Len(vectors)
             THEN Ret(st, "AlphaCountMismatch")
             ELSE apply_each(st, vectors, als)

\* SteeringModel.apply_multiple_steering
apply_multiple_steering(st, vectors, alphas) ==
    IF vectors = << >>
    THEN Ret(st, "EmptyVectors")                       \* ValueError
    ELSE LET als == IF alphas.given
                    THEN alphas.list
                    ELSE [i \in 1..Len(vectors) |-> [kind |-> "float", val |-> 1]]
         IN  IF Len(als) # Len(vectors)
             THEN Ret(st, "AlphaCountMismatch")        \* ValueError
             ELSE IF \E i \in 1..Len(vectors) :
                        layer_key(vectors[i].layer) \in DOMAIN st.active_hooks
             THEN Ret(st, "AlreadySteered")            \* RuntimeError
             ELSE apply_each(st, vectors, als)

\* for hook in self.active_hooks.values(): hook.remove()
RECURSIVE remove_each(_, _, _)
remove_each(bl, ah, keys) ==
    IF keys = {} THEN bl
    ELSE LET k == CHOOSE x \in keys : TRUE
         IN  remove_each(remove(bl, ah[k]), ah, keys \ {k})

\* remove_steering(layer) that takes the remove-all branch when the layer
\* is steered
remove_steering_layer_clears(st, layer) ==
    IF layer_key(layer) \notin DOMAIN st.active_hooks
    THEN Ret(st, "ok")
    ELSE Ret(State(EmptyDict,
                   remove_each(st.blocks, st.active_hooks, DOMAIN st.active_hooks)),
             "ok")

\* SteeringModel.remove_steering(layer) with a layer index
remove_steering_layer(st, layer) ==
    IF layer_key(layer) \notin DOMAIN st.active_hooks
    THEN Ret(st, "ok")
    ELSE Ret(State(DictPop(st.active_hooks, layer_key(layer)),
                   remove(st.blocks, st.active_hooks[layer_key(layer)])),
             "ok")

\* remove_steering() that clears the dict and leaves the hooks registered
remove_steering_all_clear_only(st) == Ret(State(EmptyDict, st.blocks), "ok")

\* SteeringModel.remove_steering() with layer=None
remove_steering_all(st) ==
    Ret(State(EmptyDict, remove_each(st.blocks, st.active_hooks, DOMAIN st.active_hooks)),
        "ok")

\* SteeringModel.remove_all_steering
remove_all_steering(st) == remove_steering_all(st)

\* What list_active_steering reports of a hook whose magnitude is computed
\* afresh from the tensor instead of read from the vector.
list_active_steering_by_norm(ah) ==
    { [ layer      |-> layer_idx(k),
        alpha      |-> ah[k].alpha,
        model_name |-> ah[k].vector.model_name,
        magnitude  |-> 1,
        method     |-> ah[k].vector.method ] : k \in DOMAIN ah }

\* SteeringModel.list_active_steering: one entry per active hook. The keys
\* of active_hooks are distinct, so the entries are; their order is left out.
list_active_steering(ah) ==
    { [ layer      |-> layer_idx(k),
        alpha      |-> ah[k].alpha,
        model_name |-> ah[k].vector.model_name,
        magnitude  |-> ah[k].vector.magnitude,
        method     |-> ah[k].vector.method ] : k \in DOMAIN ah }

\* What the host's tokenizer, model.generate and batch_decode may do.
Outcomes == {"ok", "tokenize_raises", "generate_raises", "decode_raises"}

\* generate_with_steering that removes the steering after a successful
\* generation only (no finally)
generate_with_steering_no_finally(st, tok, vector, alpha, outcome) ==
    IF tok = "None"
    THEN [st |-> st, result |-> "TokenizerRequired",
          reached |-> FALSE, during |-> st.blocks]
    ELSE LET a   == apply_steering(st, vector, alpha)
             fin == remove_steering_layer(a.st, vector.layer).st
         IN  IF a.result # "ok"
             THEN [st |-> a.st, result |-> a.result,
                   reached |-> FALSE, during |-> st.blocks]
             ELSE IF outcome = "tokenize_raises"
             THEN [st |-> a.st, result |-> "TokenizeError",
                   reached |-> FALSE, during |-> st.blocks]
             ELSE IF outcome = "generate_raises"
             THEN [st |-> a.st, result |-> "GenerateError",
                   reached |-> TRUE, during |-> a.st.blocks]
             ELSE IF outcome = "decode_raises"
             THEN [st |-> a.st, result |-> "DecodeError",
                   reached |-> TRUE, during |-> a.st.blocks]
             ELSE [st |-> fin, result |-> "ok",
                   reached |-> TRUE, during |-> a.st.blocks]

\* SteeringModel.generate_with_steering. `during` is the hooks on the blocks
\* while model.generate ran (reached is FALSE when it never ran).
generate_with_steering(st, tok, vector, alpha, outcome) ==
    IF tok = "None"
    THEN [st |-> st, result |-> "TokenizerRequired",   \* RuntimeError
          reached |-> FALSE, during |-> st.blocks]
    ELSE LET a   == apply_steering(st, vector, alpha)
             \* finally: self.remove_steering(layer=vector.layer)
             fin == remove_steering_layer(a.st, vector.layer).st
         IN  IF a.result # "ok"
             THEN [st |-> fin, result |-> a.result,
                   reached |-> FALSE, during |-> st.blocks]
             ELSE IF outcome = "tokenize_raises"
             THEN [st |-> fin, result |-> "TokenizeError",
                   reached |-> FALSE, during |-> st.blocks]
             ELSE IF outcome = "generate_raises"
             THEN [st |-> fin, result |-> "GenerateError",
                   reached |-> TRUE, during |-> a.st.blocks]
             ELSE IF outcome = "decode_raises"
             THEN [st |-> fin, result |-> "DecodeError",
                   reached |-> TRUE, during |-> a.st.blocks]
             ELSE [st |-> fin, result |-> "ok",
                   reached |-> TRUE, during |-> a.st.blocks]

---------------------------------------------------------------------------
(* The SteeringModel state machine *)

NoBlocks == [l \in layer_modules |-> << >>]

Call(op, vector, alpha, vectors, alphas, layer, outcome, result, reached, during) ==
    [ op |-> op, vector |-> vector, alpha |-> alpha, vectors |-> vectors,
      alphas |-> alphas, layer |-> layer, outcome |-> outcome,
      result |-> result, reached |-> reached, during |-> during ]

NoCall ==
    Call("none", NoVector, NoAlpha, << >>, NoneAlphas, 0, "ok", "ok", FALSE, NoBlocks)

Here == State(active_hooks, blocks)

\* SteeringModel.__init__ on a model whose blocks carry no hooks
InitModel ==
    /\ active_hooks = EmptyDict
    /\ blocks = NoBlocks
    /\ tokenizer \in {"set", "None"}
    /\ call = NoCall
    /\ pre = State(EmptyDict, NoBlocks)

\* A call is made when the caller holds no outcome of an earlier one; it
\* runs to its end in one step.
Done(r, c) ==
    /\ active_hooks' = r.st.active_hooks
    /\ blocks' = r.st.blocks
    /\ call' = c
    /\ pre' = Here
    /\ UNCHANGED << tokenizer, hookVars, saveVars, vecVars, discVars, layerVars >>

ApplySteering ==
    /\ call = NoCall
    /\ \E v \in Vectors, a \in Alphas :
        LET r == apply_steering(Here, v, a)
        IN  Done(r, Call("apply_steering", v, a, << >>, NoneAlphas, v.layer,
                         "ok", r.result, FALSE, NoBlocks))

ApplyMultipleSteering ==
    /\ call = NoCall
    /\ \E vs \in SeqsUpTo(ListVectors, MaxVectors) :
      \E as \in AlphaLists(Len(vs)) :
        LET r == apply_multiple_steering(Here, vs, as)
        IN  Done(r, Call("apply_multiple_steering", NoVector, NoAlpha, vs, as, 0,
                         "ok", r.result, FALSE, NoBlocks))

RemoveSteeringLayer ==
    /\ call = NoCall
    /\ \E l \in LayerArgs :
        LET r == remove_steering_layer(Here, l)
        IN  Done(r, Call("remove_steering", NoVector, NoAlpha, << >>, NoneAlphas, l,
                         "ok", r.result, FALSE, NoBlocks))

RemoveSteeringAll ==
    /\ call = NoCall
    /\ LET r == remove_steering_all(Here)
       IN  Done(r, Call("remove_steering_all", NoVector, NoAlpha, << >>, NoneAlphas, 0,
                     "ok", r.result, FALSE, NoBlocks))

RemoveAllSteering ==
    /\ call = NoCall
    /\ LET r == remove_all_steering(Here)
       IN  Done(r, Call("remove_all_steering", NoVector, NoAlpha, << >>, NoneAlphas, 0,
                     "ok", r.result, FALSE, NoBlocks))

GenerateWithSteering ==
    /\ call = NoCall
    /\ \E v \in Vectors, a \in Alphas, o \in Outcomes :
        LET r == generate_with_steering(Here, tokenizer, v, a, o)
        IN  Done(r, Call("generate_with_steering", v, a, << >>, NoneAlphas, v.layer,
                         o, r.result, r.reached, r.during))

\* The caller has taken the outcome of the call: its record is dropped.
Return ==
    /\ call # NoCall
    /\ call' = NoCall
    /\ pre' = Here
    /\ UNCHANGED << active_hooks, blocks, tokenizer, hookVars, saveVars, vecVars, discVars, layerVars >>

---------------------------------------------------------------------------
(* hook_fn: what a registered hook does to a block's output *)

\* longest sequence (token positions) of a hidden-state tensor
MaxSeqLen == 2
\* most elements a block puts after the hidden states in a tuple output
MaxOthers == 2

\* Hidden states of one batch row: a sequence of positions, each of
\* hidden_size values.
HiddenStates ==
    UNION { [1..n -> [1..HiddenSize -> 0..1]] : n \in 1..MaxSeqLen }

\* What a block returns besides the hidden states (attention weights, cache).
OtherOutputs == { << 7 >>, << 8 >> }

\* The forms of a block's output: a bare tensor, a tuple whose first element
\* is the hidden tensor, an object with a hidden_states attribute, and the
\* empty tuple.
BlockOutputs ==
    { [kind |-> "tensor", items |-> << h >>] : h \in HiddenStates }
      \cup { [kind |-> "tuple", items |-> << h >> \o o] :
                h \in HiddenStates, o \in SeqsUpTo(OtherOutputs, MaxOthers) }
      \cup { [kind |-> "record", items |-> << h >>] : h \in HiddenStates }
      \cup { [kind |-> "tuple", items |-> << >>] }

Raise(error) == [kind |-> error, items |-> << >>]

\* hidden_states + (self.alpha * steering_tensor), the [hidden_dim] offset
\* broadcast over the positions
Steer(hidden, alpha, tensor) ==
    [p \in 1..Len(hidden) |->
        [i \in 1..Len(hidden[p]) |-> hidden[p][i] + alpha.val * tensor[i]]]

\* ActivationHook.register.hook_fn
hook_fn(hook, output) ==
    IF output.kind = "tuple"
    THEN IF output.items = << >>
         THEN Raise("IndexError")                      \* output[0]
         ELSE LET hidden_states == Head(output.items)
                  other_outputs == Tail(output.items)
                  steered == Steer(hidden_states, hook.alpha, hook.vector.tensor)
              IN  IF other_outputs # << >>
                  THEN [kind |-> "tuple", items |-> << steered >> \o other_outputs]
                  ELSE [kind |-> "tensor", items |-> << steered >>]
    ELSE IF output.kind = "tensor"
    THEN [kind |-> "tensor",
          items |-> << Steer(Head(output.items), hook.alpha, hook.vector.tensor) >>]
    ELSE Raise("AttributeError")                       \* hidden_states.device

\* The hooks apply_steering can register: a vector of the model's hidden
\* size and a numeric alpha.
HookFns ==
    { [vector |-> v, alpha |-> a] :
        v \in { x \in Vectors : Len(x.tensor) = HiddenSize /\ x.layer = 0 },
        a \in { x \in Alphas : IsNumeric(x) } }

NoHookIn == [hook |-> [vector |-> NoVector, alpha |-> NoAlpha],
             output |-> Raise("none")]

InitHook ==
    /\ hook_in = NoHookIn
    /\ hook_ret = Raise("none")

\* A forward pass through a block carrying the hook: the block returns
\* `output` and the hook's return value replaces it.
ForwardHook ==
    /\ hook_ret = Raise("none")
    /\ hook_ret' = hook_fn(hook_in.hook, hook_in.output)
    /\ UNCHANGED << hook_in, smVars, saveVars, vecVars, discVars, layerVars >>

---------------------------------------------------------------------------
(* SteeringVector.save and SteeringVector.load *)

\* Python values kept in a metadata dict: an int, a list of ints, a tuple of
\* ints.
PyInt(n) == [kind |-> "int", items |-> << n >>]
PyList(s) == [kind |-> "list", items |-> s]
PyTuple(s) == [kind |-> "tuple", items |-> s]

\* json.dump of a value: an int is written as a number, a list and a tuple
\* both as an array.
json_dump_value(value) ==
    IF value.kind \in {"list", "tuple"}
    THEN [kind |-> "array", items |-> value.items]
    ELSE [kind |-> "number", items |-> value.items]

\* json.load of a value: a number is read as an int, an array as a list.
json_load_value(j) ==
    IF j.kind = "array"
    THEN [kind |-> "list", items |-> j.items]
    ELSE [kind |-> "int", items |-> j.items]

\* SteeringVector values that get saved: two of one shape, one of another.
\* magnitude is the L2 norm of the tensor, created_at a time stamp; the
\* metadata are those of mean_difference, those of caa with a list a caller
\* added, and those of weighted_sum called with a tuple of weights.
SavedVectors ==
    { [ tensor |-> << 3, 4 >>, layer |-> 0, layer_name |-> "model.layers.0",
        model_name |-> "gpt2", method |-> "mean_difference", magnitude |-> 5,
        metadata |-> ("positive_samples" :> PyInt(2)), created_at |-> 1 ],
      [ tensor |-> << 0, 13 >>, layer |-> 1, layer_name |-> "model.layers.1",
        model_name |-> "gpt2", method |-> "caa", magnitude |-> 13,
        metadata |-> ("contrast_pairs" :> PyInt(2)) @@ ("tags" :> PyList(<< 1, 2 >>)),
        created_at |-> 2 ],
      [ tensor |-> << 1, 2, 2 >>, layer |-> 0, layer_name |-> "model.layers.0",
        model_name |-> "llama", method |-> "weighted_sum(caa, caa)", magnitude |-> 3,
        metadata |-> ("weights" :> PyTuple(<< 1, 2 >>)), created_at |-> 3 ] }

\* Paths as pathlib sees them: the name up to its last dot, and the suffix
\* from that dot on ("" when the name has no dot).
Paths == { [stem |-> "a", suffix |-> ""],
           [stem |-> "a", suffix |-> ".v2"],
           [stem |-> "b", suffix |-> ""] }

\* Path.with_suffix: the path with its suffix replaced
with_suffix(path, suffix) == [stem |-> path.stem, suffix |-> suffix]

\* The files save() can write.
FileNames == { with_suffix(p, s) : p \in Paths, s \in {".json", ".pt"} }

NoMeta == [ version |-> "", model_name |-> "", layer |-> 0, layer_name |-> "",
            method |-> "", magnitude |-> 0, shape |-> << >>, dtype |-> "",
            created_at |-> 0, metadata |-> EmptyDict ]

\* A file: absent, opened for writing and not yet complete ("partial"),
\* a complete JSON record or a complete tensor record.
Absent == [kind |-> "absent", meta |-> NoMeta, tensor |-> << >>]
Partial == [kind |-> "partial", meta |-> NoMeta, tensor |-> << >>]
JsonFile(meta) == [kind |-> "json", meta |-> meta, tensor |-> << >>]
PtFile(tensor) == [kind |-> "pt", meta |-> NoMeta, tensor |-> tensor]

\* metadata_dict of save()
metadata_dict(v) ==
    [ version |-> "1.0.0", model_name |-> v.model_name, layer |-> v.layer,
      layer_name |-> v.layer_name, method |-> v.method,
      magnitude |-> v.magnitude, shape |-> << Len(v.tensor) >>,
      dtype |-> "float32", created_at |-> v.created_at,
      metadata |-> v.metadata ]

\* json.dump(metadata_dict, f): the strings and numbers of the record are
\* written as they are, the metadata entries value by value.
json_dump(d) ==
    [d EXCEPT !.metadata = [k \in DOMAIN d.metadata |-> json_dump_value(d.metadata[k])]]

\* json.load(f)
json_load(j) ==
    [j EXCEPT !.metadata = [k \in DOMAIN j.metadata |-> json_load_value(j.metadata[k])]]

NoSavedVector ==
    [ tensor |-> << >>, layer |-> 0, layer_name |-> "", model_name |-> "",
      method |-> "", magnitude |-> 0, metadata |-> EmptyDict, created_at |-> 0 ]

Loaded(path, result, vector) == [path |-> path, result |-> result, vector |-> vector]

\* load that stamps the loaded vector with the time of the load
load_restamped(files, path) ==
    LET json_path == with_suffix(path, ".json")
        pt_path   == with_suffix(path, ".pt")
        metadata  == json_load(files[json_path].meta)
        tensor    == files[pt_path].tensor
    IN  IF files[json_path].kind # "json" \/ files[pt_path].kind # "pt"
        THEN Loaded(path, "NotFound", NoSavedVector)
        ELSE Loaded(path, "ok",
                    [ tensor |-> tensor, layer |-> metadata.layer,
                      layer_name |-> metadata.layer_name,
                      model_name |-> metadata.model_name,
                      method |-> metadata.method,
                      magnitude |-> metadata.magnitude,
                      metadata |-> metadata.metadata,
                      created_at |-> 9 ])

\* load without the cross-check of the recorded shape against the tensor.
load_unchecked(files, path) ==
    LET json_path == with_suffix(path, ".json")
        pt_path   == with_suffix(path, ".pt")
        metadata  == json_load(files[json_path].meta)
        tensor    == files[pt_path].tensor
    IN  IF files[json_path].kind = "absent"
        THEN Loaded(path, "NotFound", NoSavedVector)
        ELSE IF files[json_path].kind # "json"
        THEN Loaded(path, "JSONDecodeError", NoSavedVector)
        ELSE IF files[pt_path].kind = "absent"
        THEN Loaded(path, "NotFound", NoSavedVector)
        ELSE IF files[pt_path].kind # "pt"
        THEN Loaded(path, "UnpicklingError", NoSavedVector)
        ELSE Loaded(path, "ok",
                    [ tensor |-> tensor, layer |-> metadata.layer,
                      layer_name |-> metadata.layer_name,
                      model_name |-> metadata.model_name,
                      method |-> metadata.method,
                      magnitude |-> metadata.magnitude,
                      metadata |-> metadata.metadata,
                      created_at |-> metadata.created_at ])

\* SteeringVector.load
load(files, path) ==
    LET json_path == with_suffix(path, ".json")
        pt_path   == with_suffix(path, ".pt")
        metadata  == json_load(files[json_path].meta)
        tensor    == files[pt_path].tensor
    IN  IF files[json_path].kind = "absent"
        THEN Loaded(path, "NotFound", NoSavedVector)           \* FileNotFoundError
        ELSE IF files[json_path].kind # "json"
        THEN Loaded(path, "JSONDecodeError", NoSavedVector)    \* json.load
        ELSE IF files[pt_path].kind = "absent"
        THEN Loaded(path, "NotFound", NoSavedVector)           \* FileNotFoundError
        ELSE IF files[pt_path].kind # "pt"
        THEN Loaded(path, "UnpicklingError", NoSavedVector)    \* torch.load
        ELSE IF << Len(tensor) >> # metadata.shape
        THEN Loaded(path, "ShapeMismatch", NoSavedVector)      \* ValueError
        ELSE Loaded(path, "ok",
                    [ tensor |-> tensor, layer |-> metadata.layer,
                      layer_name |-> metadata.layer_name,
                      model_name |-> metadata.model_name,
                      method |-> metadata.method,
                      magnitude |-> metadata.magnitude,
                      metadata |-> metadata.metadata,
                      created_at |-> metadata.created_at ])

NoPath == [stem |-> "", suffix |-> ""]

NoSaveArg == [vector |-> NoSavedVector, path |-> NoPath]

NoLoaded == Loaded(NoPath, "none", NoSavedVector)

InitSave ==
    /\ fs = [f \in FileNames |-> Absent]
    /\ save_pc = "idle"
    /\ save_arg = NoSaveArg
    /\ loaded = NoLoaded
    /\ saved = [p \in Paths |-> NoSavedVector]
    /\ last_saved = NoPath

\* save(), up to open(json_path, "w"): the file is created or truncated
save_open_json(files, v, path) ==
    [files EXCEPT ![with_suffix(path, ".json")] = Partial]

\* json.dump(metadata_dict, f) and the end of the with block
save_dump_json(files, v, path) ==
    [files EXCEPT ![with_suffix(path, ".json")] = JsonFile(json_dump(metadata_dict(v)))]

\* torch.save(self.tensor, pt_path) opening the file for writing
save_open_pt(files, v, path) ==
    [files EXCEPT ![with_suffix(path, ".pt")] = Partial]

\* torch.save(self.tensor, pt_path) having written the tensor
save_write_pt(files, v, path) ==
    [files EXCEPT ![with_suffix(path, ".pt")] = PtFile(v.tensor)]

SaveOpenJson ==
    /\ loaded.result = "none"
    /\ save_pc = "idle"
    /\ \E v \in SavedVectors, p \in Paths :
        /\ save_arg' = [vector |-> v, path |-> p]
        /\ fs' = save_open_json(fs, v, p)
        /\ saved' = [saved EXCEPT ![p] = NoSavedVector]
    /\ save_pc' = "json_open"
    /\ last_saved' = NoPath
    /\ UNCHANGED << loaded, smVars, hookVars, vecVars, discVars, layerVars >>

SaveDumpJson ==
    /\ loaded.result = "none"
    /\ save_pc = "json_open"
    /\ fs' = save_dump_json(fs, save_arg.vector, save_arg.path)
    /\ save_pc' = "json_written"
    /\ UNCHANGED << save_arg, loaded, saved, last_saved, smVars, hookVars, vecVars, discVars, layerVars >>

SaveOpenPt ==
    /\ loaded.result = "none"
    /\ save_pc = "json_written"
    /\ fs' = save_open_pt(fs, save_arg.vector, save_arg.path)
    /\ save_pc' = "pt_open"
    /\ UNCHANGED << save_arg, loaded, saved, last_saved, smVars, hookVars, vecVars, discVars, layerVars >>

SaveWritePt ==
    /\ loaded.result = "none"
    /\ save_pc = "pt_open"
    /\ fs' = save_write_pt(fs, save_arg.vector, save_arg.path)
    /\ save_pc' = "idle"
    /\ save_arg' = NoSaveArg
    /\ saved' = [saved EXCEPT ![save_arg.path] = save_arg.vector]
    /\ last_saved' = save_arg.path
    /\ UNCHANGED << loaded, smVars, hookVars, vecVars, discVars, layerVars >>

\* save() ends early: json.dump or torch.save raises (a value that does not
\* serialise, a full disk), or the process is interrupted. The files stay
\* as they are.
SaveFails ==
    /\ loaded.result = "none"
    /\ save_pc # "idle"
    /\ save_pc' = "idle"
    /\ save_arg' = NoSaveArg
    /\ UNCHANGED << fs, loaded, saved, last_saved, smVars, hookVars, vecVars, discVars, layerVars >>

\* A reader calls load(path), at any point of a save(); the call runs to its
\* end in one step.
Load ==
    /\ loaded = NoLoaded
    /\ \E p \in Paths : loaded' = load(fs, p)
    /\ UNCHANGED << fs, save_pc, save_arg, saved, last_saved, smVars, hookVars, vecVars, discVars, layerVars >>

\* The reader has taken the outcome of load(): its record is dropped.
Forget ==
    /\ loaded # NoLoaded
    /\ loaded' = NoLoaded
    /\ UNCHANGED << fs, save_pc, save_arg, saved, last_saved, smVars, hookVars, vecVars, discVars, layerVars >>

---------------------------------------------------------------------------
(* SteeringVector construction and VectorComposition *)

\* 1-D tensors handed to the vector functions: five in the plane whose norm
\* is a whole number, the zero tensor, and one of another shape.
VecTensors ==
    { << 3, 4 >>, << 4, 3 >>, << -3, -4 >>, << 5, 0 >>, << 0, 5 >>, << 0, 0 >>,
      << 3, 4, 0 >> }

RECURSIVE SumSeq(_)
SumSeq(s) == IF s = << >> THEN 0 ELSE Head(s) + SumSeq(Tail(s))

\* torch.dot of two tensors of one length
Dot(a, b) == SumSeq([i \in 1..Len(a) |-> a[i] * b[i]])

\* the whole part of the square root
Isqrt(n) == CHOOSE r \in 0..n : r * r <= n /\ (r + 1) * (r + 1) > n

\* float(torch.norm(tensor)), to the precision of whole numbers
norm(tensor) == Isqrt(Dot(tensor, tensor))

\* An optional argument: given, or left at None.
Given(x) == [given |-> TRUE, val |-> x]
NotGiven == [given |-> FALSE, val |-> 0]

\* datetime.now(timezone.utc).isoformat() at the time of the calls
utcnow == 9

Constructed(result, vector) == [result |-> result, vector |-> vector]

\* SteeringVector(...): the dataclass __init__ followed by __post_init__.
\* The tensors of the model are all 1-D tensors.
SteeringVector(tensor, layer, layer_name, model_name, method, magnitude, metadata, created_at) ==
    IF layer < 0
    THEN Constructed("InvalidLayer", NoSavedVector)            \* ValueError
    ELSE Constructed("ok",
            [ tensor |-> tensor, layer |-> layer, layer_name |-> layer_name,
              model_name |-> model_name, method |-> method,
              magnitude |-> IF magnitude.given THEN magnitude.val
                                               ELSE norm(tensor),
              metadata |-> metadata,
              created_at |-> IF created_at.given THEN created_at.val
                                                 ELSE utcnow ])

\* f"model.layers.{layer}"
LayerName(layer) ==
    IF layer = 0 THEN "model.layers.0"
    ELSE IF layer = 1 THEN "model.layers.1"
    ELSE "model.layers.n"

\* SteeringVector.to_device: a new instance with the tensor moved and every
\* other field handed over as it is (the device is not part of the model's
\* tensors).
to_device(v, device) ==
    SteeringVector(v.tensor, v.layer, v.layer_name, v.model_name, v.method,
                   Given(v.magnitude), v.metadata, Given(v.created_at))

\* magnitude arguments of a construction: None, the norm of the plane
\* tensors, and two other numbers.
Magnitudes == { NotGiven, Given(5), Given(1), Given(-1) }

VecIn(op, tensor, layer, magnitude, vector, vectors, weights, threshold, method) ==
    [ op |-> op, tensor |-> tensor, layer |-> layer, magnitude |-> magnitude,
      vector |-> vector, vectors |-> vectors, weights |-> weights,
      threshold |-> threshold, method |-> method ]

\* weights=None
NoWeights == [given |-> FALSE, val |-> << >>]

NoVecIn == VecIn("none", << >>, 0, NotGiven, NoSavedVector, << >>, NoWeights, 0, "")

\* inputs: the vectors handed to the call as they are after it
VecOut(result, vectors, conflicts, inputs) ==
    [result |-> result, vectors |-> vectors, conflicts |-> conflicts,
     inputs |-> inputs]

NoVecOut == VecOut("none", << >>, << >>, << >>)

InitVec ==
    /\ vec_in = NoVecIn
    /\ vec_out = NoVecOut

\* The vectors a caller constructs.
ConstructIns ==
    { VecIn("construct", t, l, m, NoSavedVector, << >>, NoWeights, 0, "") :
        t \in VecTensors, l \in {-1, 0, 1}, m \in Magnitudes }

\* Vectors as construction without a magnitude argument makes them.
MadeVectors ==
    { SteeringVector(t, l, LayerName(l), "gpt2", m, NotGiven, EmptyDict, Given(1)).vector :
        t \in VecTensors, l \in {0, 1}, m \in Methods }

ToDeviceIns ==
    { VecIn("to_device", << >>, 0, NotGiven, v, << >>, NoWeights, 0, "") :
        v \in MadeVectors }

\* A caller constructs a SteeringVector.
Construct ==
    /\ vec_in.op = "construct"
    /\ vec_out = NoVecOut
    /\ LET r == SteeringVector(vec_in.tensor, vec_in.layer, LayerName(vec_in.layer),
                               "gpt2", "mean_difference", vec_in.magnitude,
                               EmptyDict, NotGiven)
       IN  vec_out' = VecOut(r.result,
                             IF r.result = "ok" THEN << r.vector >> ELSE << >>,
                             << >>, << >>)
    /\ UNCHANGED << vec_in, smVars, hookVars, saveVars, discVars, layerVars >>

ToDevice ==
    /\ vec_in.op = "to_device"
    /\ vec_out = NoVecOut
    /\ vec_out' = VecOut("ok", << to_device(vec_in.vector, "cpu").vector >>, << >>,
                         << vec_in.vector >>)
    /\ UNCHANGED << vec_in, smVars, hookVars, saveVars, discVars, layerVars >>

---------------------------------------------------------------------------
(* VectorComposition: weighted_sum, compute_similarity, detect_conflicts *)

RECURSIVE Join(_)
\* ', '.join(methods)
Join(methods) ==
    IF methods = << >> THEN ""
    ELSE IF Len(methods) = 1 THEN methods[1]
    ELSE methods[1] \o ", " \o Join(Tail(methods))

\* What weighted_sum returns or raises, with the argument list as the call
\* leaves it.
Summed(result, vector, inputs) ==
    [result |-> result, vector |-> vector, inputs |-> inputs]

\* the first position after the first whose vector differs from the first
\* in layer or in shape; 0 when there is none
FirstIncompatible(vectors, check_layer) ==
    LET bad == { i \in 2..Len(vectors) :
                    \/ check_layer /\ vectors[i].layer # vectors[1].layer
                    \/ Len(vectors[i].tensor) # Len(vectors[1].tensor) }
    IN  IF bad = {} THEN 0 ELSE CHOOSE i \in bad : \A j \in bad : i <= j

\* combined_tensor = zeros_like(vectors[0].tensor); += weight * vector.tensor
\* for each pair of zip(weights, vectors)
WeightedTensor(vectors, weights) ==
    [k \in 1..Len(vectors[1].tensor) |->
        SumSeq([i \in 1..Len(vectors) |-> weights[i] * vectors[i].tensor[k]])]

\* The construction at the end of weighted_sum (normalize left at False).
CombinedVector(vectors, weights, combined_tensor) ==
    LET methods == [i \in 1..Len(vectors) |-> vectors[i].method]
    IN  SteeringVector(combined_tensor, vectors[1].layer, vectors[1].layer_name,
                       vectors[1].model_name,
                       "weighted_sum(" \o Join(methods) \o ")", NotGiven,
                       "source_methods" :> [kind |-> "list", items |-> methods]
                         @@ "weights" :> PyList(weights)
                         @@ "normalized" :> [kind |-> "bool", items |-> << FALSE >>]
                         @@ "num_vectors" :> PyInt(Len(vectors)),
                       NotGiven)

\* weighted_sum adding the tensors up without their weights.
weighted_sum_unweighted(vectors, weights) ==
    LET w == IF weights.given THEN weights.val ELSE [i \in 1..Len(vectors) |-> 1]
    IN  IF vectors = << >> THEN Summed("Empty", NoSavedVector, vectors)
        ELSE IF Len(w) # Len(vectors)
        THEN Summed("WeightCountMismatch", NoSavedVector, vectors)
        ELSE IF FirstIncompatible(vectors, TRUE) # 0
        THEN Summed("Incompatible", NoSavedVector, vectors)
        ELSE LET made == CombinedVector(vectors, w,
                            WeightedTensor(vectors, [i \in 1..Len(vectors) |-> 1]))
             IN  Summed(made.result, made.vector, vectors)

\* weighted_sum without the comparison of the layers.
weighted_sum_any_layer(vectors, weights) ==
    LET w == IF weights.given THEN weights.val ELSE [i \in 1..Len(vectors) |-> 1]
    IN  IF vectors = << >> THEN Summed("Empty", NoSavedVector, vectors)
        ELSE IF Len(w) # Len(vectors)
        THEN Summed("WeightCountMismatch", NoSavedVector, vectors)
        ELSE IF FirstIncompatible(vectors, FALSE) # 0
        THEN Summed("Incompatible", NoSavedVector, vectors)
        ELSE LET made == CombinedVector(vectors, w, WeightedTensor(vectors, w))
             IN  Summed(made.result, made.vector, vectors)

\* VectorComposition.weighted_sum(vectors, weights), normalize=False. The
\* errors are ValueErrors; the results name the message. The sum is built in
\* a fresh tensor, the arguments are read only.
weighted_sum(vectors, weights) ==
    LET w == IF weights.given THEN weights.val ELSE [i \in 1..Len(vectors) |-> 1]
    IN  IF vectors = << >> THEN Summed("Empty", NoSavedVector, vectors)
        ELSE IF Len(w) # Len(vectors)
        THEN Summed("WeightCountMismatch", NoSavedVector, vectors)
        ELSE IF FirstIncompatible(vectors, TRUE) # 0
        THEN Summed("Incompatible", NoSavedVector, vectors)
        ELSE LET made == CombinedVector(vectors, w, WeightedTensor(vectors, w))
             IN  Summed(made.result, made.vector, vectors)

\* A cosine similarity is kept in hundredths: 100 stands for 1.0.
Similarity(result, val) == [result |-> result, val |-> val]

\* VectorComposition.compute_similarity
compute_similarity(vec1, vec2) ==
    IF Len(vec1.tensor) # Len(vec2.tensor)
    THEN Similarity("ShapeMismatch", 0)                          \* ValueError
    ELSE LET dot_product == Dot(vec1.tensor, vec2.tensor)
             norm1 == norm(vec1.tensor)
             norm2 == norm(vec2.tensor)
         IN  IF norm1 = 0 \/ norm2 = 0
             THEN Similarity("ok", 0)
             ELSE Similarity("ok", (100 * dot_product) \div (norm1 * norm2))

Abs(x) == IF x < 0 THEN 0 - x ELSE x

RECURSIVE LoopPairs(_, _, _)
\* The index pairs in the order of the two loops of detect_conflicts, from
\* (i, j) on, over n vectors; indices count from 0.
LoopPairs(i, j, n) ==
    IF i >= n - 1 THEN << >>
    ELSE IF j >= n THEN LoopPairs(i + 1, i + 2, n)
    ELSE << << i, j >> >> \o LoopPairs(i, j + 1, n)

RECURSIVE visit_pairs(_, _, _)
\* The loops of detect_conflicts over the pairs still to visit: the
\* conflicts appended, or the ValueError of compute_similarity.
visit_pairs(vectors, threshold, pairs) ==
    IF pairs = << >> THEN [result |-> "ok", conflicts |-> << >>]
    ELSE LET i == pairs[1][1]
             j == pairs[1][2]
             similarity == compute_similarity(vectors[i + 1], vectors[j + 1])
             rest == visit_pairs(vectors, threshold, Tail(pairs))
         IN  IF similarity.result # "ok"
             THEN [result |-> similarity.result, conflicts |-> << >>]
             ELSE IF rest.result # "ok" THEN rest
             ELSE IF Abs(similarity.val) >= threshold
             THEN [result |-> "ok",
                   conflicts |-> << << i, j, similarity.val >> >> \o rest.conflicts]
             ELSE rest

\* VectorComposition.detect_conflicts
detect_conflicts(vectors, threshold) ==
    IF Len(vectors) < 2 THEN [result |-> "ok", conflicts |-> << >>]
    ELSE visit_pairs(vectors, threshold, LoopPairs(0, 1, Len(vectors)))

\* thresholds in hundredths
Thresholds == { 0, 70, 100 }

\* The vectors handed to the composition functions: gpt2 vectors of method
\* "caa" over VecTensors.
CompVectors == { v \in MadeVectors : v.method = "caa" }

\* weight lists: longer and shorter ones, negative and zero weights
WeightLists == { NoWeights, Given(<< >>), Given(<< 2 >>), Given(<< 2, -1 >>),
                 Given(<< 0, 3 >>) }

WeightedSumIns ==
    { VecIn("weighted_sum", << >>, 0, NotGiven, NoSavedVector, vs, w, 0, "") :
        vs \in SeqsUpTo({ v \in CompVectors :
                        v.tensor \in { << 3, 4 >>, << 5, 0 >>, << 3, 4, 0 >> } },
                 MaxVectors),
        w \in WeightLists }

DetectConflictsIns ==
    { VecIn("detect_conflicts", << >>, 0, NotGiven, NoSavedVector, vs, NoWeights, t, "") :
        vs \in SeqsUpTo({ v \in CompVectors : v.layer = 0 }, MaxVectors + 1),
        t \in Thresholds }

WeightedSum ==
    /\ vec_in.op = "weighted_sum"
    /\ vec_out = NoVecOut
    /\ LET r == weighted_sum(vec_in.vectors, vec_in.weights)
       IN  vec_out' = VecOut(r.result,
                             IF r.result = "ok" THEN << r.vector >> ELSE << >>,
                             << >>, r.inputs)
    /\ UNCHANGED << vec_in, smVars, hookVars, saveVars, discVars, layerVars >>

DetectConflicts ==
    /\ vec_in.op = "detect_conflicts"
    /\ vec_out = NoVecOut
    /\ LET r == detect_conflicts(vec_in.vectors, vec_in.threshold)
       IN  vec_out' = VecOut(r.result, << >>, r.conflicts, vec_in.vectors)
    /\ UNCHANGED << vec_in, smVars, hookVars, saveVars, discVars, layerVars >>

---------------------------------------------------------------------------
(* float32 arithmetic of the tensors orthogonalize computes with *)

\* A float32 number is sign, 24-bit significand and exponent: the number
\* m * 2^e with 2^23 <= |m| < 2^24, or m = 0; every operation rounds to the
\* nearest such number, ties to the even significand. Infinities, NaN and
\* subnormal numbers do not arise from the tensors of the model.
Float(m, e) == [m |-> m, e |-> e]

FZero == Float(0, 0)

RECURSIVE Pow2(_)
Pow2(k) == IF k <= 0 THEN 1 ELSE 2 * Pow2(k - 1)

\* the significands: MantLow <= |m| < 2 * MantLow
MantLow == Pow2(23)

\* the number of binary digits of n > 0
RECURSIVE BitLen(_)
BitLen(n) == IF n <= 1 THEN n ELSE 1 + BitLen(n \div 2)

\* The float32 nearest to sign * (n + f) * 2^e for an integer n > 0 and a
\* fraction 0 <= f < 1 that is positive iff sticky.
FRound(negative, n, e, sticky) ==
    LET k == BitLen(n) - 24
    IN  IF k <= 0
        THEN Float((IF negative THEN -1 ELSE 1) * n * Pow2(0 - k), e + k)
        ELSE LET q == n \div Pow2(k)
                 r == n % Pow2(k)
                 half == Pow2(k - 1)
                 up == \/ r > half
                       \/ r = half /\ sticky
                       \/ r = half /\ ~sticky /\ q % 2 = 1
                 m == IF up THEN q + 1 ELSE q
             IN  IF m = 2 * MantLow
                 THEN Float((IF negative THEN -1 ELSE 1) * MantLow, e + k + 1)
                 ELSE Float((IF negative THEN -1 ELSE 1) * m, e + k)

\* float(n) of an integer n
FromInt(n) ==
    IF n = 0 THEN FZero ELSE FRound(n < 0, IF n < 0 THEN 0 - n ELSE n, 0, FALSE)

FNeg(a) == Float(0 - a.m, a.e)

\* a * b
FMul(a, b) ==
    IF a.m = 0 \/ b.m = 0 THEN FZero
    ELSE LET ma == IF a.m < 0 THEN 0 - a.m ELSE a.m
             mb == IF b.m < 0 THEN 0 - b.m ELSE b.m
             a1 == ma \div 4096
             a0 == ma % 4096
             b1 == mb \div 4096
             b0 == mb % 4096
             t == a1 * b0 + a0 * b1 + (a0 * b0) \div 4096
         IN  FRound((a.m < 0) # (b.m < 0),
                    a1 * b1 * 64 + t \div 64,
                    a.e + b.e + 18,
                    t % 64 # 0 \/ (a0 * b0) % 4096 # 0)

\* the quotient digits of r / d: rounds more groups of five binary digits
\* after the quotient q so far
RECURSIVE LongDiv(_, _, _, _)
LongDiv(q, r, d, rounds) ==
    IF rounds = 0 THEN << q, r >>
    ELSE LongDiv(q * 32 + (r * 32) \div d, (r * 32) % d, d, rounds - 1)

\* a / b for b # 0
FDiv(a, b) ==
    IF a.m = 0 THEN FZero
    ELSE LET ma == IF a.m < 0 THEN 0 - a.m ELSE a.m
             mb == IF b.m < 0 THEN 0 - b.m ELSE b.m
             qr == LongDiv(ma \div mb, ma % mb, mb, 5)
         IN  FRound((a.m < 0) # (b.m < 0), qr[1], a.e - b.e - 25, qr[2] # 0)

\* a + b for a.e >= b.e, a.m # 0, b.m # 0
FAddOrdered(a, b) ==
    LET d == a.e - b.e
        mb == IF b.m < 0 THEN 0 - b.m ELSE b.m
        na == a.m * 8
        shifted == IF d >= 28 THEN 0 ELSE (mb * 8) \div Pow2(d)
        lost == IF d >= 28 THEN TRUE ELSE (mb * 8) % Pow2(d) # 0
        \* b's part of the sum, rounded towards minus infinity, in units of
        \* 2^(a.e - 3)
        nb == IF b.m > 0 THEN shifted
              ELSE IF lost THEN 0 - shifted - 1 ELSE 0 - shifted
        sum == na + nb
    IN  IF sum = 0 /\ ~lost THEN FZero
        ELSE IF sum >= 0
        THEN FRound(FALSE, sum, a.e - 3, lost)
        ELSE \* the number is sum + f, its size (-sum - 1) + (1 - f)
             IF lost THEN FRound(TRUE, 0 - sum - 1, a.e - 3, TRUE)
             ELSE FRound(TRUE, 0 - sum, a.e - 3, FALSE)

\* a + b
FAdd(a, b) ==
    IF a.m = 0 THEN b
    ELSE IF b.m = 0 THEN a
    ELSE IF a.e >= b.e THEN FAddOrdered(a, b)
    ELSE FAddOrdered(b, a)

\* a - b
FSub(a, b) == FAdd(a, FNeg(b))

\* r * r compared with m * 2^26: "lt", "eq" or "gt"
SquareAgainst(r, m) ==
    LET r1 == r \div 8192
        r0 == r % 8192
        t == 2 * r1 * r0 + (r0 * r0) \div 8192
        high == r1 * r1 + t \div 8192
    IN  IF high < m THEN "lt"
        ELSE IF high > m THEN "gt"
        ELSE IF t % 8192 = 0 /\ (r0 * r0) % 8192 = 0 THEN "eq"
        ELSE "gt"

\* the largest r in lo..hi with r * r <= m * 2^26, by bisection
RECURSIVE RootOf(_, _, _)
RootOf(m, lo, hi) ==
    IF lo >= hi THEN lo
    ELSE LET mid == (lo + hi + 1) \div 2
         IN  IF SquareAgainst(mid, m) = "gt" THEN RootOf(m, lo, mid - 1)
             ELSE RootOf(m, mid, hi)

\* sqrt(a) for a >= 0
FSqrt(a) ==
    IF a.m = 0 THEN FZero
    ELSE LET m == IF a.e % 2 = 0 THEN a.m ELSE 2 * a.m
             e == IF a.e % 2 = 0 THEN a.e ELSE a.e - 1
             r == RootOf(m, 0, Pow2(26))
         IN  FRound(FALSE, r, (e - 26) \div 2, SquareAgainst(r, m) # "eq")

\* a <= b
FLessEq(a, b) == FSub(b, a).m >= 0

\* |a|
FAbs(a) == IF a.m < 0 THEN FNeg(a) ELSE a

\* torch.dot(a, b) of two 1-D tensors, the products added up in their order
RECURSIVE FDotFrom(_, _, _, _)
FDotFrom(acc, a, b, i) ==
    IF i > Len(a) THEN acc
    ELSE FDotFrom(FAdd(acc, FMul(a[i], b[i])), a, b, i + 1)

FDot(a, b) == FDotFrom(FZero, a, b, 1)

\* torch.norm(a)
FNorm(a) == FSqrt(FDot(a, a))

\* x > 1e-10 for x >= 0: 1e-10 lies between 2^-34 and 2^-33
AboveEps(x) == x.m > 0 /\ x.e + 23 >= -33

\* torch.tensor of integers as a float tensor
FTensor(ints) == [k \in 1..Len(ints) |-> FromInt(ints[k])]

---------------------------------------------------------------------------
(* VectorComposition.orthogonalize *)

\* ortho_tensor after the projections onto the earlier outputs have been
\* subtracted, in their order.
RECURSIVE subtract_projections(_, _)
subtract_projections(ortho_tensor, ortho_tensors) ==
    IF ortho_tensors = << >> THEN ortho_tensor
    ELSE LET prev_ortho == Head(ortho_tensors)
             dot_product == FDot(ortho_tensor, prev_ortho)
             norm_squared == FDot(prev_ortho, prev_ortho)
             projected ==
                 IF AboveEps(norm_squared)
                 THEN LET factor == FDiv(dot_product, norm_squared)
                      IN  [k \in 1..Len(ortho_tensor) |->
                              FSub(ortho_tensor[k], FMul(factor, prev_ortho[k]))]
                 ELSE ortho_tensor
         IN  subtract_projections(projected, Tail(ortho_tensors))

\* ortho_tensor / norm when norm > 1e-10
normalized(ortho_tensor) ==
    LET n == FNorm(ortho_tensor)
    IN  IF AboveEps(n)
        THEN [k \in 1..Len(ortho_tensor) |-> FDiv(ortho_tensor[k], n)]
        ELSE ortho_tensor

\* The Gram-Schmidt loop over the tensors still to come, ortho_tensors being
\* the outputs made so far.
RECURSIVE gram_schmidt(_, _)
gram_schmidt(tensors, ortho_tensors) ==
    IF tensors = << >> THEN ortho_tensors
    ELSE gram_schmidt(Tail(tensors),
            Append(ortho_tensors,
                   normalized(subtract_projections(Head(tensors), ortho_tensors))))

PyStr(s) == [kind |-> "str", items |-> << s >>]

\* SteeringVector(...) for a float tensor: magnitude and created_at are not
\* given and are computed by __post_init__.
FloatVector(tensor, layer, layer_name, model_name, method, metadata) ==
    [ tensor |-> tensor, layer |-> layer, layer_name |-> layer_name,
      model_name |-> model_name, method |-> method,
      magnitude |-> FNorm(tensor), metadata |-> metadata,
      created_at |-> utcnow ]

\* the dict display {"original_method": ..., "orthogonalization": ...,
\* "position": i, **orig_vec.metadata}: the entries of orig_vec.metadata come
\* last and replace the entries before them that have their keys
ortho_metadata(orig_vec, method, i) ==
    orig_vec.metadata
      @@ ( "original_method" :> PyStr(orig_vec.method)
             @@ "orthogonalization" :> PyStr(method)
             @@ "position" :> PyInt(i) )

\* What orthogonalize returns or raises.
Orthogonalized(result, vectors) == [result |-> result, vectors |-> vectors]

\* the first position after the first whose vector differs from the first
\* in shape or in layer; 0 when there is none
FirstUnlike(vectors) ==
    LET bad == { i \in 2..Len(vectors) :
                    \/ Len(vectors[i].tensor) # Len(vectors[1].tensor)
                    \/ vectors[i].layer # vectors[1].layer }
    IN  IF bad = {} THEN 0 ELSE CHOOSE i \in bad : \A j \in bad : i <= j

\* VectorComposition.orthogonalize(vectors, method); indices count from 0.
\* The errors are ValueErrors; the results name the message.
orthogonalize(vectors, method) ==
    IF vectors = << >> THEN Orthogonalized("Empty", << >>)
    ELSE IF method # "gram_schmidt"
    THEN Orthogonalized("UnsupportedMethod", << >>)
    ELSE IF FirstUnlike(vectors) # 0
    THEN Orthogonalized("Incompatible", << >>)
    ELSE LET ortho_tensors ==
                 gram_schmidt([i \in 1..Len(vectors) |-> FTensor(vectors[i].tensor)],
                              << >>)
         IN  Orthogonalized("ok",
                [i \in 1..Len(vectors) |->
                    FloatVector(ortho_tensors[i], vectors[1].layer,
                                vectors[1].layer_name, vectors[1].model_name,
                                vectors[i].method \o "_orthogonalized",
                                ortho_metadata(vectors[i], method, i - 1))])

\* The tensors handed to orthogonalize.
OrthoTensors == { << 3, 4 >>, << 4, 3 >>, << 5, 0 >>, << 0, 5 >>, << 0, 0 >>,
                  << 3, 4, 0 >> }

\* The vectors handed to orthogonalize: vectors of a discovery method with
\* its metadata, at two layers, and vectors that an earlier orthogonalize
\* call has returned at position 1 of its list.
OrthoVectors ==
    { SteeringVector(t, l, LayerName(l), "gpt2", "caa", NotGiven,
                     "contrast_pairs" :> PyInt(2), Given(1)).vector :
        t \in OrthoTensors, l \in {0, 1} }
      \cup { SteeringVector(t, 0, LayerName(0), "gpt2", "caa_orthogonalized",
                            NotGiven,
                            "original_method" :> PyStr("caa")
                              @@ "orthogonalization" :> PyStr("gram_schmidt")
                              @@ "position" :> PyInt(1)
                              @@ "contrast_pairs" :> PyInt(2),
                            Given(1)).vector :
                t \in { << 4, 3 >>, << 5, 0 >> } }

OrthoMethods == { "gram_schmidt", "svd" }

OrthogonalizeIns ==
    { VecIn("orthogonalize", << >>, 0, NotGiven, NoSavedVector, vs, NoWeights, 0, m) :
        vs \in SeqsUpTo({ v \in OrthoVectors : v.layer = 0 }, 3)
                 \cup SeqsUpTo({ v \in OrthoVectors : v.tensor = << 3, 4 >> }, 2),
        m \in OrthoMethods }

Orthogonalize ==
    /\ vec_in.op = "orthogonalize"
    /\ vec_out = NoVecOut
    /\ LET r == orthogonalize(vec_in.vectors, vec_in.method)
       IN  vec_out' = VecOut(r.result, r.vectors, << >>, vec_in.vectors)
    /\ UNCHANGED << vec_in, smVars, hookVars, saveVars, discVars, layerVars >>

---------------------------------------------------------------------------
(* Discovery: mean_difference, caa, linear_probe and _extract_activations *)

\* A layer argument: a Python int, or a value of another type ("15", 1.5).
IntLayer(n) == [int |-> TRUE, val |-> n]
NonIntLayer == [int |-> FALSE, val |-> 0]

DiscLayers == { NonIntLayer } \cup { IntLayer(n) : n \in -1 .. NumLayers }

\* The example texts of the calls.
PositiveLists == { << >>, << "p1" >>, << "p1", "p2" >>, << "p1", "p2", "p3" >> }
NegativeLists == { << >>, << "n1" >>, << "n1", "n2" >> }

\* batch_size arguments
BatchSizes == { 1, 2 }

\* The model under discovery: the hidden states its target block emits for a
\* text, one row of hidden_size values per token position, every text
\* tokenized to MaxSeqLen positions.
TextBase(text) ==
    IF text = "p1" THEN 8 ELSE IF text = "p2" THEN 16
    ELSE IF text = "p3" THEN 20 ELSE IF text = "n1" THEN 4 ELSE 0

TokenStates(text) ==
    [p \in 1..MaxSeqLen |-> [k \in 1..HiddenSize |-> TextBase(text) * k + 12 * (p - 1)]]

\* The forms in which the target block returns its hidden states.
BlockForms == {"tuple", "record", "tensor"}

\* model(**inputs) as the target block sees it: the block's output for the
\* batch, a tensor [batch, seq_len, hidden_dim] in the block's form.
block_output(batch_texts, form) ==
    LET hidden == [b \in 1..Len(batch_texts) |-> TokenStates(batch_texts[b])]
    IN  IF form = "tuple"
        THEN [kind |-> "tuple", items |-> << hidden, << 7 >> >>]
        ELSE [kind |-> form, items |-> << hidden >>]

\* activation.mean(dim=1): [batch, seq_len, hidden_dim] -> [batch, hidden_dim]
MeanDim1(activation) ==
    [b \in 1..Len(activation) |->
        [k \in 1..Len(activation[b][1]) |->
            SumSeq([p \in 1..Len(activation[b]) |-> activation[b][p][k]])
                \div Len(activation[b])]]

\* torch.mean(rows, dim=0): [n, hidden_dim] -> [hidden_dim]
MeanDim0(rows) ==
    [k \in 1..Len(rows[1]) |->
        SumSeq([b \in 1..Len(rows) |-> rows[b][k]]) \div Len(rows)]

\* _extract_activations.hook_fn: what the hook appends to batch_activations
extract_hook_fn(output) ==
    LET activation == IF output.kind = "tuple" THEN output.items[1]
                      ELSE IF output.kind = "record" THEN output.items[1]
                      ELSE output.items[1]
    IN  MeanDim1(activation)

\* What a forward pass does with the target block: it runs the block (the
\* hook fires), it never reaches the block, or it raises.
ForwardOutcomes == {"fires", "skipped", "raises"}

DiscRet(result, vector) == [result |-> result, vector |-> vector]
NoDiscRet == DiscRet("none", NoSavedVector)

\* The checks at the top of mean_difference, caa and linear_probe. The three
\* raise ValueError; the results name the message.
validate_inputs_any_layer(op, positive, negative, layer) ==
    IF positive = << >> THEN "EmptyExamples"
    ELSE IF negative = << >> THEN "EmptyExamples"
    ELSE IF op = "caa" /\ Len(positive) # Len(negative) THEN "SizeMismatch"
    ELSE IF ~layer.int THEN "InvalidLayer"
    ELSE "ok"

validate_inputs(op, positive, negative, layer) ==
    IF positive = << >> THEN "EmptyExamples"
    ELSE IF negative = << >> THEN "EmptyExamples"
    ELSE IF op = "caa" /\ Len(positive) # Len(negative) THEN "SizeMismatch"
    ELSE IF ~layer.int \/ layer.val < 0 THEN "InvalidLayer"
    ELSE "ok"

\* Discovery._detect_layer_name on a model whose blocks are model.layers:
\* the name of the block, or ValueError "Cannot detect layer name".
detect_layer_name(layer) ==
    IF layer < NumLayers
    THEN [result |-> "ok", layer_name |-> LayerName(layer)]
    ELSE [result |-> "InvalidLayer", layer_name |-> ""]

\* The Python slice texts[:stop]: the first stop elements, all of them when
\* there are fewer, and for a negative stop all but the last -stop.
SliceTo(texts, stop) ==
    LET end == IF stop < 0 THEN Len(texts) + stop ELSE stop
    IN  SubSeq(texts, 1, IF end < Len(texts) THEN end ELSE Len(texts))

\* caa: positive[:num_pairs] and negative[:num_pairs] with
\* num_pairs = min(num_pairs, len(positive)); the other methods use the lists
\* as they are.
Truncated(texts, in) ==
    IF in.op = "caa" /\ in.num_pairs.given
    THEN SliceTo(texts, IF in.num_pairs.val < Len(in.positive)
                        THEN in.num_pairs.val ELSE Len(in.positive))
    ELSE texts

\* target_module.register_forward_hook(hook_fn)
register_forward_hook(hooks) == hooks + 1

BatchRet(hooks, result, rows) == [hooks |-> hooks, result |-> result, rows |-> rows]

\* The try block of one batch without its finally clause.
run_batch_no_finally(hooks, outcome, output) ==
    LET batch_activations ==
            IF outcome = "fires" THEN << extract_hook_fn(output) >> ELSE << >>
    IN  IF outcome = "raises"
        THEN BatchRet(hooks, "ForwardError", << >>)
        ELSE IF batch_activations = << >>
        THEN BatchRet(hooks, "NoActivationCaptured", << >>)
        ELSE BatchRet(hooks - 1, "ok", batch_activations[1])

\* One batch of _extract_activations from the forward pass on: the forward
\* pass, the collection of what the hook captured, and handle.remove() in the
\* finally clause.
run_batch(hooks, outcome, output) ==
    LET batch_activations ==
            IF outcome = "fires" THEN << extract_hook_fn(output) >> ELSE << >>
    IN  IF outcome = "raises"
        THEN BatchRet(hooks - 1, "ForwardError", << >>)
        ELSE IF batch_activations = << >>
        THEN BatchRet(hooks - 1, "NoActivationCaptured", << >>)     \* RuntimeError
        ELSE BatchRet(hooks - 1, "ok", batch_activations[1])

\* pos_activations - neg_activations
Contrasts(pos, neg) ==
    [i \in 1..Len(pos) |-> [k \in 1..Len(pos[i]) |-> pos[i][k] - neg[i][k]]]

\* caa with the contrasts added up instead of averaged.
caa_reduce_sum(pos, neg) ==
    LET contrasts == Contrasts(pos, neg)
    IN  [k \in 1..Len(contrasts[1]) |->
            SumSeq([i \in 1..Len(contrasts) |-> contrasts[i][k]])]

\* caa: torch.mean(pos_activations - neg_activations, dim=0)
caa_reduce(pos, neg) == MeanDim0(Contrasts(pos, neg))

\* mean_difference: torch.mean(pos, dim=0) - torch.mean(neg, dim=0)
mean_difference_reduce(pos, neg) ==
    LET mean_pos == MeanDim0(pos)
        mean_neg == MeanDim0(neg)
    IN  [k \in 1..Len(mean_pos) |-> mean_pos[k] - mean_neg[k]]

\* probe.coef_[0] of the fitted LogisticRegression: the fit is not part of
\* the model, its weights are any vector of the hidden size.
ProbeWeights == { [k \in 1..HiddenSize |-> w] : w \in {0, 1} }

\* What probe.fit(X, y) does: it converges, it stops at max_iter without
\* having converged (scikit-learn warns and returns the fitted estimator), or
\* it raises.
FitOutcomes == {"converged", "not_converged", "raises"}

\* form and fit are what the model's block and the classifier's training do
\* during the call.
DiscIn(op, positive, negative, layer, batch_size, num_pairs, form, fit) ==
    [ op |-> op, positive |-> positive, negative |-> negative, layer |-> layer,
      batch_size |-> batch_size, num_pairs |-> num_pairs, form |-> form,
      fit |-> fit ]

NoDiscIn == DiscIn("none", << >>, << >>, IntLayer(0), 1, NotGiven, "tensor", "converged")

\* num_pairs arguments of caa
NumPairs == { -1, 0, 1, 3 }

DiscMethods == {"mean_difference", "caa", "linear_probe"}

\* The calls of the three methods; num_pairs is an argument of caa alone.
DiscIns ==
    { DiscIn(op, p, n, l, b, NotGiven, f, "converged") :
        op \in DiscMethods, p \in PositiveLists, n \in NegativeLists,
        l \in DiscLayers, b \in BatchSizes, f \in BlockForms }
      \cup { DiscIn("caa", p, n, l, b, Given(k), f, "converged") :
                p \in PositiveLists, n \in NegativeLists,
                l \in DiscLayers, b \in BatchSizes, f \in BlockForms,
                k \in NumPairs }
      \cup { DiscIn("linear_probe", p, n, l, b, NotGiven, f, fit) :
                p \in PositiveLists, n \in NegativeLists,
                l \in DiscLayers, b \in BatchSizes, f \in BlockForms,
                fit \in FitOutcomes }

Pc(phase, step, i) == [phase |-> phase, step |-> step, i |-> i]

InitDisc ==
    /\ disc_in = NoDiscIn
    /\ disc_pc = Pc("idle", "", 0)
    /\ activations_list = << >>
    /\ pos_activations = << >>
    /\ neg_activations = << >>
    /\ target_hooks = 0
    /\ registrations = 0
    /\ forward_passes = 0
    /\ disc_out = NoDiscRet

\* The texts of the extraction under way.
Texts ==
    Truncated(IF disc_pc.phase = "positive" THEN disc_in.positive
              ELSE disc_in.negative, disc_in)

\* A batch that is always the first batch_size texts
BatchTextsFromStart ==
    SubSeq(Texts, 1, IF disc_in.batch_size < Len(Texts)
                     THEN disc_in.batch_size ELSE Len(Texts))

\* texts[i:i + batch_size]
BatchTexts ==
    SubSeq(Texts, disc_pc.i + 1,
           IF disc_pc.i + disc_in.batch_size < Len(Texts)
           THEN disc_pc.i + disc_in.batch_size ELSE Len(Texts))

\* The head of mean_difference, caa and linear_probe: the validation of the
\* arguments and _detect_layer_name; on success the first extraction begins.
\* The negative list of a call that gets this far is empty only when the
\* positive one is.
DiscCall ==
    /\ disc_pc.phase = "call"
    /\ LET v == validate_inputs(disc_in.op, disc_in.positive, disc_in.negative,
                                disc_in.layer)
           d == detect_layer_name(disc_in.layer.val)
       IN  IF v # "ok"
           THEN /\ disc_out' = DiscRet(v, NoSavedVector)
                /\ disc_pc' = Pc("done", "", 0)
           ELSE IF d.result # "ok"
           THEN /\ disc_out' = DiscRet(d.result, NoSavedVector)
                /\ disc_pc' = Pc("done", "", 0)
           ELSE IF Truncated(disc_in.positive, disc_in) = << >>
           THEN \* no batch to run: torch.cat of an empty list raises
                /\ disc_out' = DiscRet("CatOfEmptyList", NoSavedVector)
                /\ disc_pc' = Pc("done", "", 0)
           ELSE /\ disc_out' = disc_out
                /\ disc_pc' = Pc("positive", "register", 0)
    /\ UNCHANGED << disc_in, activations_list, pos_activations, neg_activations,
                    target_hooks, registrations, forward_passes,
                    smVars, hookVars, saveVars, vecVars, layerVars >>

\* _extract_activations, one batch up to the registration of the hook:
\* the batch is tokenized, hook_fn defined and registered on the target block.
RegisterHook ==
    /\ disc_pc.phase \in {"positive", "negative"}
    /\ disc_pc.step = "register"
    /\ target_hooks' = register_forward_hook(target_hooks)
    /\ registrations' = registrations + 1
    /\ disc_pc' = [disc_pc EXCEPT !.step = "forward"]
    /\ UNCHANGED << disc_in, activations_list, pos_activations, neg_activations,
                    forward_passes, disc_out,
                    smVars, hookVars, saveVars, vecVars, layerVars >>

\* _extract_activations, the rest of the batch: the forward pass, the
\* collection, the removal of the hook; then the next batch, or after the last
\* batch torch.cat and the return to the method, or the exception leaving the
\* method.
ForwardPass ==
    /\ disc_pc.phase \in {"positive", "negative"}
    /\ disc_pc.step = "forward"
    /\ \E outcome \in ForwardOutcomes :
         LET r == run_batch(target_hooks, outcome,
                            block_output(BatchTexts, disc_in.form))
             all_activations == activations_list \o r.rows
             more == disc_pc.i + disc_in.batch_size < Len(Texts)
         IN  /\ target_hooks' = r.hooks
             /\ forward_passes' = forward_passes + 1
             /\ IF r.result # "ok"
                THEN /\ disc_out' = DiscRet(r.result, NoSavedVector)
                     /\ disc_pc' = Pc("done", "", 0)
                     /\ UNCHANGED << activations_list, pos_activations,
                                     neg_activations >>
                ELSE IF more
                THEN /\ activations_list' = all_activations
                     /\ disc_pc' = Pc(disc_pc.phase, "register",
                                      disc_pc.i + disc_in.batch_size)
                     /\ UNCHANGED << disc_out, pos_activations, neg_activations >>
                ELSE IF disc_pc.phase = "positive"
                THEN /\ pos_activations' = all_activations
                     /\ activations_list' = << >>
                     /\ disc_pc' = Pc("negative", "register", 0)
                     /\ UNCHANGED << disc_out, neg_activations >>
                ELSE /\ neg_activations' = all_activations
                     /\ activations_list' = << >>
                     /\ disc_pc' = Pc("reduce", "", 0)
                     /\ UNCHANGED << disc_out, pos_activations >>
    /\ UNCHANGED << disc_in, registrations, smVars, hookVars, saveVars, vecVars, layerVars >>

\* The tail of the three methods: the reduction of the activations to one
\* direction and the construction of the SteeringVector.
Reduce ==
    /\ disc_pc.phase = "reduce"
    /\ \E probe_weights \in ProbeWeights :
         LET steering_vector ==
                 IF disc_in.op = "caa"
                 THEN caa_reduce(pos_activations, neg_activations)
                 ELSE IF disc_in.op = "mean_difference"
                 THEN mean_difference_reduce(pos_activations, neg_activations)
                 ELSE probe_weights
             metadata ==
                 IF disc_in.op = "caa"
                 THEN "contrast_pairs" :> PyInt(Len(pos_activations))
                 ELSE "positive_samples" :> PyInt(Len(disc_in.positive))
                        @@ "negative_samples" :> PyInt(Len(disc_in.negative))
             made == SteeringVector(steering_vector, disc_in.layer.val,
                                    detect_layer_name(disc_in.layer.val).layer_name,
                                    "gpt2", disc_in.op, NotGiven, metadata,
                                    NotGiven)
         IN  IF disc_in.op = "linear_probe" /\ disc_in.fit = "raises"
             THEN disc_out' = DiscRet("TrainingFailed", NoSavedVector)   \* RuntimeError
             ELSE disc_out' = DiscRet(made.result, made.vector)
    /\ disc_pc' = Pc("done", "", 0)
    /\ UNCHANGED << disc_in, activations_list, pos_activations, neg_activations,
                    target_hooks, registrations, forward_passes,
                    smVars, hookVars, saveVars, vecVars, layerVars >>

---------------------------------------------------------------------------
(* MODEL_REGISTRY and SteeringModel._detect_layers *)

\* An entry of the registry: (parent_module, layers_attr). The parent path is
\* kept as the attribute names that parent_path.split(".") gives.
Arch(parent_path, layers_attr) ==
    [parent_path |-> parent_path, layers_attr |-> layers_attr]

\* MODEL_REGISTRY as the module defines it.
MODEL_REGISTRY ==
    [ t \in {"llama", "mistral", "gemma", "gemma2", "phi", "phi3", "qwen2", "qwen2_moe"} |-> Arch(<< "model" >>, "layers") ]
      @@ [ t \in {"gpt2", "gpt_neo", "gptj", "bloom", "falcon"} |-> Arch(<< "transformer" >>, "h") ]
      @@ ("gpt_neox" :> Arch(<< "gpt_neox" >>, "layers"))
      @@ ("opt" :> Arch(<< "model", "decoder" >>, "layers"))

\* A wrapped model: config.model_type ("None" when the config has none), the
\* attribute paths from the model that lead to a module, and for a module and
\* an attribute name the number of blocks of the sequence found there.
HfModel(model_type, modules, layers) ==
    [model_type |-> model_type, modules |-> modules, layers |-> layers]

\* GPT-2: model.transformer.h
Gpt2Model ==
    HfModel("gpt2", {<< "transformer" >>}, << << "transformer" >>, "h" >> :> NumLayers)

\* The models wrapped: the built-in layouts of gpt2 and opt, a model of a type
\* the module does not list with its blocks at encoder.layers, gpt2 models
\* whose structure is not the registered one or whose block list is empty,
\* and a model whose config has no model_type.
HfModels ==
    { Gpt2Model,
      HfModel("opt", {<< "model" >>, << "model", "decoder" >>},
              << << "model", "decoder" >>, "layers" >> :> NumLayers),
      HfModel("my_custom_model", {<< "encoder" >>},
              << << "encoder" >>, "layers" >> :> NumLayers),
      HfModel("my_custom_model", {<< "encoder" >>},
              << << "encoder" >>, "layers" >> :> 0),
      HfModel("gpt2", {<< "model" >>}, << << "model" >>, "h" >> :> NumLayers),
      HfModel("gpt2", {<< "transformer" >>},
              << << "transformer" >>, "layers" >> :> NumLayers),
      HfModel("gpt2", {<< "transformer" >>}, << << "transformer" >>, "h" >> :> 0),
      HfModel("None", {<< "transformer" >>}, << << "transformer" >>, "h" >> :> NumLayers) }

\* self._layer_modules: None, or the dict {i: layer} of n blocks
NoLayers == [set |-> FALSE, n |-> 0]
Layers(n) == [set |-> TRUE, n |-> n]

\* What a layer resolution gave: a mapping or an error. `registered` is
\* whether the model's type was in the registry when it ran.
DetectRet(result, layers, registered) ==
    [result |-> result, layers |-> layers, registered |-> registered]

NoDetectRet == DetectRet("none", NoLayers, FALSE)

\* for attr in parent_path.split("."): parent_module = getattr(parent_module, attr)
Navigable(model, parent_path) ==
    \A k \in 1..Len(parent_path) : SubSeq(parent_path, 1, k) \in model.modules

\* _detect_layers that looks the model type up in the registry as the module
\* defines it, whatever has been registered since
detect_layers_builtin(cache, reg, model) ==
    IF cache.set
    THEN [cache |-> cache, result |-> "ok", layers |-> cache]
    ELSE IF model.model_type = "None"
    THEN [cache |-> cache, result |-> "NoModelType", layers |-> NoLayers]
    ELSE IF model.model_type \notin DOMAIN MODEL_REGISTRY
    THEN [cache |-> cache, result |-> "UnsupportedArchitecture", layers |-> NoLayers]
    ELSE LET arch == MODEL_REGISTRY[model.model_type]
         IN  IF ~Navigable(model, arch.parent_path)
             THEN [cache |-> cache, result |-> "ParentNotFound", layers |-> NoLayers]
             ELSE IF << arch.parent_path, arch.layers_attr >> \notin DOMAIN model.layers
             THEN [cache |-> cache, result |-> "LayersAttrMissing", layers |-> NoLayers]
             ELSE LET found == Layers(model.layers[<< arch.parent_path, arch.layers_attr >>])
                  IN  IF found.n = 0
                      THEN [cache |-> found, result |-> "NoLayersFound", layers |-> NoLayers]
                      ELSE [cache |-> found, result |-> "ok", layers |-> found]

\* SteeringModel._detect_layers. Gives the new _layer_modules and the
\* outcome: the mapping, or the ValueError raised.
detect_layers(cache, reg, model) ==
    IF cache.set
    THEN [cache |-> cache, result |-> "ok", layers |-> cache]
    ELSE IF model.model_type = "None"
    THEN [cache |-> cache, result |-> "NoModelType", layers |-> NoLayers]
    ELSE IF model.model_type \notin DOMAIN reg
    THEN [cache |-> cache, result |-> "UnsupportedArchitecture", layers |-> NoLayers]
    ELSE LET arch == reg[model.model_type]
         IN  IF ~Navigable(model, arch.parent_path)
             THEN [cache |-> cache, result |-> "ParentNotFound", layers |-> NoLayers]
             ELSE IF << arch.parent_path, arch.layers_attr >> \notin DOMAIN model.layers
             THEN [cache |-> cache, result |-> "LayersAttrMissing", layers |-> NoLayers]
             ELSE LET found == Layers(model.layers[<< arch.parent_path, arch.layers_attr >>])
                  IN  \* the mapping is stored before it is tested
                      IF found.n = 0
                      THEN [cache |-> found, result |-> "NoLayersFound", layers |-> NoLayers]
                      ELSE [cache |-> found, result |-> "ok", layers |-> found]

\* SteeringModel.num_layers: len(self._detect_layers())
num_layers(cache, reg, model) ==
    LET r == detect_layers(cache, reg, model)
    IN  [cache |-> r.cache, result |-> r.result, layers |-> r.layers,
         len |-> IF r.result = "ok" THEN r.layers.n ELSE -1]

\* register_architecture(model_type, parent_path, layers_attr): the entry is
\* added to the registry.
register_architecture(reg, model_type, parent_path, layers_attr) ==
    (model_type :> Arch(parent_path, layers_attr)) @@ reg

\* get_supported_architectures(): the model types of the registry
get_supported_architectures(reg) == DOMAIN reg

\* The registrations made: two model types the module does not list, with
\* two parent paths and two attribute names.
NewTypes == {"my_custom_model", "t5"}
ParentPaths == { << "encoder" >>, << "model", "decoder" >> }
LayersAttrs == {"layers", "h"}

RegCall(model_type, parent_path, layers_attr, before) ==
    [model_type |-> model_type, parent_path |-> parent_path,
     layers_attr |-> layers_attr, before |-> before]

NoRegCall == RegCall("", << >>, "", MODEL_REGISTRY)

InitLayers ==
    /\ registry = MODEL_REGISTRY
    /\ hf_model = Gpt2Model
    /\ layer_cache = NoLayers
    /\ detect_first = NoDetectRet
    /\ detect_ret = NoDetectRet
    /\ reg_call = NoRegCall

\* register_architecture for a model type that is not registered yet
RegisterArchitecture ==
    \E t \in NewTypes \ DOMAIN registry, p \in ParentPaths, a \in LayersAttrs :
        /\ registry' = register_architecture(registry, t, p, a)
        /\ reg_call' = RegCall(t, p, a, registry)
        /\ UNCHANGED << hf_model, layer_cache, detect_first, detect_ret,
                        smVars, hookVars, saveVars, vecVars, discVars >>

\* The outcome r of a layer resolution is taken down.
Resolved(r) ==
    LET ret == DetectRet(r.result, r.layers, hf_model.model_type \in DOMAIN registry)
    IN  /\ layer_cache' = r.cache
        /\ detect_ret' = ret
        /\ detect_first' = IF detect_first = NoDetectRet THEN ret ELSE detect_first
        /\ UNCHANGED << registry, hf_model, reg_call,
                        smVars, hookVars, saveVars, vecVars, discVars >>

\* A caller (_get_layer_module) resolves the layers.
DetectLayers == Resolved(detect_layers(layer_cache, registry, hf_model))

\* A caller reads num_layers.
NumLayersRead ==
    LET r == num_layers(layer_cache, registry, hf_model)
    IN  Resolved([cache |-> r.cache, result |-> r.result,
                  layers |-> IF r.result = "ok" THEN Layers(r.len) ELSE r.layers])

NextLayers ==
    \/ RegisterArchitecture
    \/ DetectLayers
    \/ NumLayersRead

---------------------------------------------------------------------------
(* Specifications *)

Init == InitModel /\ InitHook /\ InitSave /\ InitVec /\ InitDisc /\ InitLayers

Next ==
    \/ ApplySteering
    \/ ApplyMultipleSteering
    \/ RemoveSteeringLayer
    \/ RemoveSteeringAll
    \/ RemoveAllSteering
    \/ GenerateWithSteering
    \/ Return

Spec == Init /\ [][Next]_vars

\* A model with its tokenizer, one block carrying a hook, and an output the
\* block is about to return.
InitForward ==
    /\ active_hooks = EmptyDict
    /\ blocks = NoBlocks
    /\ tokenizer = "set"
    /\ call = NoCall
    /\ pre = State(EmptyDict, NoBlocks)
    /\ hook_in \in [hook : HookFns, output : BlockOutputs]
    /\ hook_ret = Raise("none")
    /\ fs = [f \in FileNames |-> Absent]
    /\ save_pc = "idle"
    /\ save_arg = NoSaveArg
    /\ loaded = NoLoaded
    /\ saved = [p \in Paths |-> NoSavedVector]
    /\ last_saved = NoPath
    /\ vec_in = NoVecIn
    /\ vec_out = NoVecOut
    /\ disc_in = NoDiscIn
    /\ disc_pc = Pc("idle", "", 0)
    /\ activations_list = << >>
    /\ pos_activations = << >>
    /\ neg_activations = << >>
    /\ target_hooks = 0
    /\ registrations = 0
    /\ forward_passes = 0
    /\ disc_out = NoDiscRet
    /\ registry = MODEL_REGISTRY
    /\ hf_model = Gpt2Model
    /\ layer_cache = NoLayers
    /\ detect_first = NoDetectRet
    /\ detect_ret = NoDetectRet
    /\ reg_call = NoRegCall

NextHook == ForwardHook

SpecHook == InitForward /\ [][NextHook]_vars

NextSave ==
    \/ SaveOpenJson
    \/ SaveDumpJson
    \/ SaveOpenPt
    \/ SaveWritePt
    \/ SaveFails
    \/ Load
    \/ Forget

\* A call of a vector function about to be made.
InitVectors ==
    /\ active_hooks = EmptyDict
    /\ blocks = NoBlocks
    /\ tokenizer = "set"
    /\ call = NoCall
    /\ pre = State(EmptyDict, NoBlocks)
    /\ hook_in = NoHookIn
    /\ hook_ret = Raise("none")
    /\ fs = [f \in FileNames |-> Absent]
    /\ save_pc = "idle"
    /\ save_arg = NoSaveArg
    /\ loaded = NoLoaded
    /\ saved = [p \in Paths |-> NoSavedVector]
    /\ last_saved = NoPath
    /\ vec_in \in ConstructIns \cup ToDeviceIns \cup WeightedSumIns
                  \cup DetectConflictsIns
    /\ vec_out = NoVecOut
    /\ disc_in = NoDiscIn
    /\ disc_pc = Pc("idle", "", 0)
    /\ activations_list = << >>
    /\ pos_activations = << >>
    /\ neg_activations = << >>
    /\ target_hooks = 0
    /\ registrations = 0
    /\ forward_passes = 0
    /\ disc_out = NoDiscRet
    /\ registry = MODEL_REGISTRY
    /\ hf_model = Gpt2Model
    /\ layer_cache = NoLayers
    /\ detect_first = NoDetectRet
    /\ detect_ret = NoDetectRet
    /\ reg_call = NoRegCall

NextVec ==
    \/ Construct
    \/ ToDevice
    \/ WeightedSum
    \/ DetectConflicts

SpecVec == InitVectors /\ [][NextVec]_vars

NextDisc ==
    \/ DiscCall
    \/ RegisterHook
    \/ ForwardPass
    \/ Reduce

\* A call of a Discovery method on an unhooked model.
InitDiscovery ==
    /\ active_hooks = EmptyDict
    /\ blocks = NoBlocks
    /\ tokenizer = "set"
    /\ call = NoCall
    /\ pre = State(EmptyDict, NoBlocks)
    /\ hook_in = NoHookIn
    /\ hook_ret = Raise("none")
    /\ fs = [f \in FileNames |-> Absent]
    /\ save_pc = "idle"
    /\ save_arg = NoSaveArg
    /\ loaded = NoLoaded
    /\ saved = [p \in Paths |-> NoSavedVector]
    /\ last_saved = NoPath
    /\ vec_in = NoVecIn
    /\ vec_out = NoVecOut
    /\ disc_in \in DiscIns
    /\ disc_pc = Pc("call", "", 0)
    /\ activations_list = << >>
    /\ pos_activations = << >>
    /\ neg_activations = << >>
    /\ target_hooks = 0
    /\ registrations = 0
    /\ forward_passes = 0
    /\ disc_out = NoDiscRet
    /\ registry = MODEL_REGISTRY
    /\ hf_model = Gpt2Model
    /\ layer_cache = NoLayers
    /\ detect_first = NoDetectRet
    /\ detect_ret = NoDetectRet
    /\ reg_call = NoRegCall

SpecDisc == InitDiscovery /\ [][NextDisc]_vars

NextOrtho == Orthogonalize

\* A call of orthogonalize.
InitOrthogonalize ==
    /\ active_hooks = EmptyDict
    /\ blocks = NoBlocks
    /\ tokenizer = "set"
    /\ call = NoCall
    /\ pre = State(EmptyDict, NoBlocks)
    /\ hook_in = NoHookIn
    /\ hook_ret = Raise("none")
    /\ fs = [f \in FileNames |-> Absent]
    /\ save_pc = "idle"
    /\ save_arg = NoSaveArg
    /\ loaded = NoLoaded
    /\ saved = [p \in Paths |-> NoSavedVector]
    /\ last_saved = NoPath
    /\ vec_in \in OrthogonalizeIns
    /\ vec_out = NoVecOut
    /\ disc_in = NoDiscIn
    /\ disc_pc = Pc("idle", "", 0)
    /\ activations_list = << >>
    /\ pos_activations = << >>
    /\ neg_activations = << >>
    /\ target_hooks = 0
    /\ registrations = 0
    /\ forward_passes = 0
    /\ disc_out = NoDiscRet
    /\ registry = MODEL_REGISTRY
    /\ hf_model = Gpt2Model
    /\ layer_cache = NoLayers
    /\ detect_first = NoDetectRet
    /\ detect_ret = NoDetectRet
    /\ reg_call = NoRegCall

SpecOrtho == InitOrthogonalize /\ [][NextOrtho]_vars

\* An empty directory, no save() under way.
InitFiles ==
    /\ active_hooks = EmptyDict
    /\ blocks = NoBlocks
    /\ tokenizer = "set"
    /\ call = NoCall
    /\ pre = State(EmptyDict, NoBlocks)
    /\ hook_in = NoHookIn
    /\ hook_ret = Raise("none")
    /\ fs = [f \in FileNames |-> Absent]
    /\ save_pc = "idle"
    /\ save_arg = NoSaveArg
    /\ loaded = NoLoaded
    /\ saved = [p \in Paths |-> NoSavedVector]
    /\ last_saved = NoPath
    /\ vec_in = NoVecIn
    /\ vec_out = NoVecOut
    /\ disc_in = NoDiscIn
    /\ disc_pc = Pc("idle", "", 0)
    /\ activations_list = << >>
    /\ pos_activations = << >>
    /\ neg_activations = << >>
    /\ target_hooks = 0
    /\ registrations = 0
    /\ forward_passes = 0
    /\ disc_out = NoDiscRet
    /\ registry = MODEL_REGISTRY
    /\ hf_model = Gpt2Model
    /\ layer_cache = NoLayers
    /\ detect_first = NoDetectRet
    /\ detect_ret = NoDetectRet
    /\ reg_call = NoRegCall

SpecSave == InitFiles /\ [][NextSave]_vars

\* A model just wrapped: nothing resolved, nothing registered.
InitWrapped ==
    /\ active_hooks = EmptyDict
    /\ blocks = NoBlocks
    /\ tokenizer = "set"
    /\ call = NoCall
    /\ pre = State(EmptyDict, NoBlocks)
    /\ hook_in = NoHookIn
    /\ hook_ret = Raise("none")
    /\ fs = [f \in FileNames |-> Absent]
    /\ save_pc = "idle"
    /\ save_arg = NoSaveArg
    /\ loaded = NoLoaded
    /\ saved = [p \in Paths |-> NoSavedVector]
    /\ last_saved = NoPath
    /\ vec_in = NoVecIn
    /\ vec_out = NoVecOut
    /\ disc_in = NoDiscIn
    /\ disc_pc = Pc("idle", "", 0)
    /\ activations_list = << >>
    /\ pos_activations = << >>
    /\ neg_activations = << >>
    /\ target_hooks = 0
    /\ registrations = 0
    /\ forward_passes = 0
    /\ disc_out = NoDiscRet
    /\ registry = MODEL_REGISTRY
    /\ hf_model \in HfModels
    /\ layer_cache = NoLayers
    /\ detect_first = NoDetectRet
    /\ detect_ret = NoDetectRet
    /\ reg_call = NoRegCall

SpecLayers == InitWrapped /\ [][NextLayers]_vars

---------------------------------------------------------------------------
(* Claims about the SteeringModel operations (specification Spec) *)

Steered(ah, layer) == layer_key(layer) \in DOMAIN ah

\* The call left the active set and the hooks on every block as they were.
NothingChanged == active_hooks = pre.active_hooks /\ blocks = pre.blocks

\* C1: after generate_with_steering returns, normally or by propagating an
\* exception of tokenization, generation or decoding, vector.layer has no
\* entry in the active set and its block carries no steering hook.
C1_GenerateCleansUp ==
    ( /\ call.op = "generate_with_steering"
      /\ call.result \in {"ok", "TokenizeError", "GenerateError", "DecodeError"} )
    => /\ ~Steered(active_hooks, call.vector.layer)
       /\ call.vector.layer \in layer_modules
       /\ blocks[call.vector.layer] = << >>

\* C1 witness: model.generate raised while the hook was on the block, and
\* the hook is gone afterwards.
C1_Witness ==
    /\ call.op = "generate_with_steering"
    /\ call.result = "GenerateError"
    /\ call.reached
    /\ call.during[call.vector.layer] = << [vector |-> call.vector, alpha |-> call.alpha] >>
    /\ blocks[call.vector.layer] = << >>
    /\ ~Steered(active_hooks, call.vector.layer)

\* Some vector of the call's list targets a layer that was steered when the
\* call started.
ListConflict ==
    \E i \in 1..Len(call.vectors) : Steered(pre.active_hooks, call.vectors[i].layer)

AlphaCountWrong ==
    call.alphas.given /\ Len(call.alphas.list) # Len(call.vectors)

\* C2 as claimed: a list with a vector for an already steered layer makes
\* apply_multiple_steering fail with AlreadySteered and register nothing.
C2_ConflictAlreadySteered ==
    (call.op = "apply_multiple_steering" /\ ListConflict)
    => call.result = "AlreadySteered" /\ NothingChanged

\* C2 amended: a list with a vector for an already steered layer makes
\* apply_multiple_steering fail and register nothing; the error is
\* AlreadySteered unless the alpha list has the wrong length, which is
\* checked first and reported as such.
C2_ConflictRegistersNothing ==
    (call.op = "apply_multiple_steering" /\ ListConflict)
    => /\ call.result = IF AlphaCountWrong THEN "AlphaCountMismatch"
                                           ELSE "AlreadySteered"
       /\ NothingChanged

\* C2 witness: AlreadySteered for a list that also holds a vector for an
\* idle layer, which stayed idle.
C2_Witness ==
    /\ call.op = "apply_multiple_steering"
    /\ call.result = "AlreadySteered"
    /\ \E i \in 1..Len(call.vectors) :
          /\ call.vectors[i].layer \in layer_modules
          /\ Len(call.vectors[i].tensor) = HiddenSize
          /\ ~Steered(pre.active_hooks, call.vectors[i].layer)
          /\ ~Steered(active_hooks, call.vectors[i].layer)
          /\ \E j \in (i + 1)..Len(call.vectors) :
                Steered(pre.active_hooks, call.vectors[j].layer)

\* C3 as claimed: whenever apply_multiple_steering raises, no vector of the
\* list has been applied.
C3_AllOrNothing ==
    (call.op = "apply_multiple_steering" /\ call.result # "ok")
    => NothingChanged

\* No block carries more than one steering hook.
AtMostOneHook == \A l \in layer_modules : Len(blocks[l]) <= 1

\* C4 as claimed: apply_steering on a steered layer fails with
\* AlreadySteered and changes nothing; no block carries two hooks.
C4_SteeredAlreadySteered ==
    /\ AtMostOneHook
    /\ (call.op = "apply_steering" /\ Steered(pre.active_hooks, call.vector.layer))
       => call.result = "AlreadySteered" /\ NothingChanged

\* C4 amended: apply_steering on a steered layer fails, with AlreadySteered
\* when alpha is numeric and with InvalidAlpha when it is not, registers no
\* second hook and leaves the existing hook's alpha and vector in place; no
\* block ever carries two steering hooks.
C4_NoStacking ==
    /\ AtMostOneHook
    /\ (call.op = "apply_steering" /\ Steered(pre.active_hooks, call.vector.layer))
       => /\ call.result = IF IsNumeric(call.alpha) THEN "AlreadySteered"
                                                    ELSE "InvalidAlpha"
          /\ NothingChanged

\* C4 witness: AlreadySteered for a vector and an alpha other than the ones
\* in place, which are still in place.
C4_Witness ==
    /\ call.op = "apply_steering"
    /\ call.result = "AlreadySteered"
    /\ Steered(active_hooks, call.vector.layer)
    /\ active_hooks[layer_key(call.vector.layer)].vector # call.vector
    /\ active_hooks[layer_key(call.vector.layer)].alpha # call.alpha
    /\ Len(blocks[call.vector.layer]) = 1

\* The arguments of the apply_steering call are valid for the model.
ValidApply ==
    /\ IsNumeric(call.alpha)
    /\ call.vector.layer \in layer_modules
    /\ Len(call.vector.tensor) = HiddenSize

\* C5: remove_steering() and remove_all_steering unregister every hook and
\* leave list_active_steering empty; after remove_steering(layer) the layer
\* is idle; and apply_steering of a valid vector on an idle layer succeeds.
C5_Lifecycle ==
    /\ call.op \in {"remove_steering_all", "remove_all_steering"}
       => /\ DOMAIN active_hooks = {}
          /\ \A l \in layer_modules : blocks[l] = << >>
          /\ list_active_steering(active_hooks) = {}
    /\ call.op = "remove_steering"
       => /\ ~Steered(active_hooks, call.layer)
          /\ call.layer \in layer_modules => blocks[call.layer] = << >>
    /\ ( /\ call.op = "apply_steering"
         /\ ValidApply
         /\ ~Steered(pre.active_hooks, call.vector.layer) )
       => /\ call.result = "ok"
          /\ Steered(active_hooks, call.vector.layer)
          /\ active_hooks[layer_key(call.vector.layer)].vector = call.vector
          /\ active_hooks[layer_key(call.vector.layer)].alpha = call.alpha
          /\ active_hooks[layer_key(call.vector.layer)].handle
          /\ blocks[call.vector.layer]
                = << [vector |-> call.vector, alpha |-> call.alpha] >>

\* C5 witness: remove_steering() on a model with every layer steered.
C5_Witness ==
    /\ call.op = "remove_steering_all"
    /\ \A l \in layer_modules :
          Steered(pre.active_hooks, l) /\ Len(pre.blocks[l]) = 1
    /\ list_active_steering(active_hooks) = {}
    /\ \A l \in layer_modules : blocks[l] = << >>

\* C6: remove_steering(layer) removes that layer's hook and leaves every
\* other layer's hook as it was; on a layer that is not steered it changes
\* nothing and raises nothing; calling it again changes nothing.
C6_RemoveOnlyThatLayer ==
    call.op = "remove_steering"
    => /\ call.result = "ok"
       /\ DOMAIN active_hooks = (DOMAIN pre.active_hooks) \ {layer_key(call.layer)}
       /\ \A k \in DOMAIN active_hooks : active_hooks[k] = pre.active_hooks[k]
       /\ \A l \in layer_modules \ {call.layer} : blocks[l] = pre.blocks[l]
       /\ call.layer \in layer_modules => blocks[call.layer] = << >>
       /\ ~Steered(pre.active_hooks, call.layer) => NothingChanged
       /\ remove_steering_layer(Here, call.layer) = Ret(Here, "ok")

\* C6 witness: the hook of one layer removed while another layer is steered.
C6_Witness ==
    /\ call.op = "remove_steering"
    /\ Steered(pre.active_hooks, call.layer)
    /\ ~Steered(active_hooks, call.layer)
    /\ \E l \in layer_modules \ {call.layer} :
          Steered(active_hooks, l) /\ Len(blocks[l]) = 1

\* C7 as claimed: apply_steering rejects a non-numeric alpha with
\* InvalidAlpha, a layer out of range with InvalidLayer and a vector of the
\* wrong length with DimensionMismatch (each when the checks named before it
\* pass), and changes nothing in these cases.
C7_RejectsByKind ==
    call.op = "apply_steering"
    => /\ ~IsNumeric(call.alpha) => call.result = "InvalidAlpha"
       /\ (IsNumeric(call.alpha) /\ call.vector.layer \notin layer_modules)
          => call.result = "InvalidLayer"
       /\ ( /\ IsNumeric(call.alpha)
            /\ call.vector.layer \in layer_modules
            /\ Len(call.vector.tensor) # HiddenSize )
          => call.result = "DimensionMismatch"
       /\ ~ValidApply => NothingChanged

\* C7 amended: as claimed, except that a vector of the wrong length for a
\* layer that is already steered is rejected with AlreadySteered, the check
\* for active steering coming before the length check.
C7_RejectsInvalid ==
    call.op = "apply_steering"
    => /\ ~IsNumeric(call.alpha) => call.result = "InvalidAlpha"
       /\ (IsNumeric(call.alpha) /\ call.vector.layer \notin layer_modules)
          => call.result = "InvalidLayer"
       /\ ( /\ IsNumeric(call.alpha)
            /\ call.vector.layer \in layer_modules
            /\ Len(call.vector.tensor) # HiddenSize )
          => call.result = IF Steered(pre.active_hooks, call.vector.layer)
                           THEN "AlreadySteered"
                           ELSE "DimensionMismatch"
       /\ ~ValidApply => NothingChanged

\* C7 witness: DimensionMismatch on a model that has another layer steered.
C7_Witness ==
    /\ call.op = "apply_steering"
    /\ call.result = "DimensionMismatch"
    /\ DOMAIN active_hooks # {}
    /\ blocks[call.vector.layer] = << >>

\* The entry list_active_steering is to give for a layer steered with
\* `vector` at strength `alpha`.
Entry(layer, alpha, vector) ==
    [ layer |-> layer, alpha |-> alpha, model_name |-> vector.model_name,
      magnitude |-> vector.magnitude, method |-> vector.method ]

\* The alpha apply_multiple_steering was given for the i-th vector of its list
\* (1.0 when no list of alphas was given).
AlphaAt(i) ==
    IF call.alphas.given THEN call.alphas.list[i] ELSE [kind |-> "float", val |-> 1]

\* C22: list_active_steering has exactly one entry for every layer whose block
\* carries a steering hook and none for the others, and each entry has the
\* layer's index and the alpha, model_name, magnitude and method of the vector
\* of the apply call that steered the layer: an entry is either the one the
\* list had before the call, or the one of a vector this call applied.
C22_ListActive ==
    LET listed == list_active_steering(active_hooks)
    IN  /\ \A l \in layer_modules :
              Cardinality({ e \in listed : e.layer = l })
                 = IF blocks[l] # << >> THEN 1 ELSE 0
        /\ \A e \in listed : e.layer \in layer_modules
        /\ (call.op = "apply_steering" /\ call.result = "ok")
           => Entry(call.vector.layer, call.alpha, call.vector) \in listed
        /\ (call.op = "apply_multiple_steering" /\ call.result = "ok")
           => \A i \in 1..Len(call.vectors) :
                 Entry(call.vectors[i].layer, AlphaAt(i), call.vectors[i]) \in listed
        /\ \A e \in listed :
              \/ e \in list_active_steering(pre.active_hooks)
              \/ /\ call.op = "apply_steering"
                 /\ e = Entry(call.vector.layer, call.alpha, call.vector)
              \/ /\ call.op = "apply_multiple_steering"
                 /\ \E i \in 1..Len(call.vectors) :
                       /\ i <= Len(call.alphas.list) \/ ~call.alphas.given
                       /\ e = Entry(call.vectors[i].layer, AlphaAt(i), call.vectors[i])

\* C22 witness: a caa vector of magnitude 3 from "llama" was applied to layer
\* 1 while layer 0 was steered with another vector, and the list has both.
C22_Witness ==
    /\ call.op = "apply_steering"
    /\ call.result = "ok"
    /\ call.vector.layer = 1
    /\ call.vector.method = "caa"
    /\ Steered(pre.active_hooks, 0)
    /\ pre.active_hooks[layer_key(0)].vector.method = "mean_difference"
    /\ Cardinality(list_active_steering(active_hooks)) = 2
    /\ [layer |-> 1, alpha |-> call.alpha, model_name |-> "llama", magnitude |-> 3, method |-> "caa"]
          \in list_active_steering(active_hooks)

\* C25: generate_with_steering is temporary: whatever the state it starts in
\* and however it ends, the active hooks with their alphas and vectors, and
\* the hooks on the blocks, are after the call what they were before it.
C25_GenerateTemporary ==
    call.op = "generate_with_steering"
    => /\ active_hooks = pre.active_hooks
       /\ blocks = pre.blocks

\* C26: in every reachable state the active set and the hooks on the blocks
\* agree: the key of layer i is recorded exactly when block i carries a
\* steering hook, the block then carries the hook function of the recorded
\* hook and no other, the recorded hook holds its handle, and the layer of
\* its vector is i.
C26_RecordedIsRegistered ==
    /\ \A k \in DOMAIN active_hooks : layer_idx(k) \in layer_modules
    /\ \A i \in layer_modules :
          /\ Steered(active_hooks, i) <=> blocks[i] # << >>
          /\ Steered(active_hooks, i)
             => /\ active_hooks[layer_key(i)].handle
                /\ active_hooks[layer_key(i)].module = i
                /\ active_hooks[layer_key(i)].vector.layer = i
                /\ blocks[i] = << HookFn(active_hooks[layer_key(i)]) >>

\* C26 witness: apply_multiple_steering failed after it had applied a vector
\* of its list; the vector it applied is recorded and registered.
C26_Witness ==
    /\ call.op = "apply_multiple_steering"
    /\ call.result # "ok"
    /\ active_hooks # pre.active_hooks
    /\ \E i \in layer_modules :
          /\ Steered(active_hooks, i)
          /\ ~Steered(pre.active_hooks, i)
          /\ blocks[i] = << HookFn(active_hooks[layer_key(i)]) >>

---------------------------------------------------------------------------
(* Claims about the registry and layer resolution (specification SpecLayers) *)

\* The blocks a model holds at the place an entry of the registry names
\* (0 when there is no such place).
BlocksAt(model, arch) ==
    IF Navigable(model, arch.parent_path)
       /\ << arch.parent_path, arch.layers_attr >> \in DOMAIN model.layers
    THEN model.layers[<< arch.parent_path, arch.layers_attr >>]
    ELSE 0

\* C23: after register_architecture(t, parent_path, layers_attr) for a type t
\* that was not registered, the supported architectures are the earlier ones
\* and t, one more than before, the earlier entries are as they were, and a
\* layer resolution on a model of a type registered this way does not fail
\* with UnsupportedArchitecture: it gives the blocks found at the registered
\* place when the model has blocks there.
C23_RegistryExtended ==
    /\ reg_call # NoRegCall
       => /\ reg_call.model_type \notin DOMAIN reg_call.before
          /\ reg_call.model_type \in get_supported_architectures(registry)
          /\ Cardinality(get_supported_architectures(registry))
                = Cardinality(get_supported_architectures(reg_call.before)) + 1
          /\ \A u \in DOMAIN reg_call.before :
                u \in DOMAIN registry /\ registry[u] = reg_call.before[u]
          /\ registry[reg_call.model_type]
                = Arch(reg_call.parent_path, reg_call.layers_attr)
    /\ ( /\ detect_ret # NoDetectRet
         /\ detect_ret.registered
         /\ hf_model.model_type \notin DOMAIN MODEL_REGISTRY )
       => /\ detect_ret.result # "UnsupportedArchitecture"
          /\ BlocksAt(hf_model, registry[hf_model.model_type]) > 0
             => /\ detect_ret.result = "ok"
                /\ detect_ret.layers = Layers(BlocksAt(hf_model, registry[hf_model.model_type]))

\* C23 witness: a model of type my_custom_model could not be resolved, the
\* type was registered with (encoder, layers), and the model's blocks at
\* encoder.layers are resolved.
C23_Witness ==
    /\ hf_model.model_type = "my_custom_model"
    /\ detect_first.result = "UnsupportedArchitecture"
    /\ reg_call.model_type = "my_custom_model"
    /\ registry["my_custom_model"] = Arch(<< "encoder" >>, "layers")
    /\ detect_ret.result = "ok"
    /\ detect_ret.layers = Layers(NumLayers)

\* C27: on one model, with the model's type registered or not as it was at
\* the first resolution, every later resolution gives what the first one
\* gave, the same mapping or the same error, and num_layers never gives 0.
C27_SameOutcome ==
    /\ ( /\ detect_first # NoDetectRet
         /\ detect_ret.registered = detect_first.registered )
       => /\ detect_ret.result = detect_first.result
          /\ detect_ret.layers = detect_first.layers
    /\ ~(detect_ret.result = "ok" /\ detect_ret.layers.n = 0)

---------------------------------------------------------------------------
(* Claims about hook_fn (specification SpecHook) *)

\* hidden + alpha * v for the call in hook_in
Expected ==
    Steer(Head(hook_in.output.items), hook_in.hook.alpha, hook_in.hook.vector.tensor)

\* C8 as claimed: a bare tensor comes back as the bare tensor
\* hidden + alpha*v, and a tuple of n >= 1 elements as a tuple of n elements
\* whose first is hidden + alpha*v and whose others are the original ones.
C8_FormPreserved ==
    hook_ret # Raise("none")
    => /\ hook_in.output.kind = "tensor"
          => hook_ret = [kind |-> "tensor", items |-> << Expected >>]
       /\ (hook_in.output.kind = "tuple" /\ Len(hook_in.output.items) >= 1)
          => /\ hook_ret.kind = "tuple"
             /\ Len(hook_ret.items) = Len(hook_in.output.items)
             /\ hook_ret.items[1] = Expected
             /\ \A i \in 2..Len(hook_in.output.items) :
                   hook_ret.items[i] = hook_in.output.items[i]

\* C9 as claimed: an output object with a hidden_states field comes back as
\* such an object, with alpha*v added to the field, and nothing is raised.
C9_RecordSteered ==
    (hook_ret # Raise("none") /\ hook_in.output.kind = "record")
    => hook_ret = [kind |-> "record", items |-> << Expected >>]

---------------------------------------------------------------------------
(* Claims about save and load (specification SpecSave) *)

\* C10 as claimed: whatever point a save() has reached or failed at, a
\* load() that returns a vector returns one saved vector whole: its metadata
\* and its tensor are those of the same saved vector.
C10_LoadSeesWholeVector ==
    loaded.result = "ok"
    => \E v \in SavedVectors :
          /\ loaded.vector.tensor = v.tensor
          /\ [loaded.vector EXCEPT !.tensor = << >>, !.metadata = EmptyDict]
                = [v EXCEPT !.tensor = << >>, !.metadata = EmptyDict]
          /\ DOMAIN loaded.vector.metadata = DOMAIN v.metadata

\* The metadata of v holds only values that JSON gives back as they were.
JsonNative(v) == \A k \in DOMAIN v.metadata : v.metadata[k].kind # "tuple"

\* v as it comes back from its JSON record: a tuple in the metadata has
\* become a list of the same items.
AsReloaded(v) ==
    [v EXCEPT !.metadata =
        [k \in DOMAIN v.metadata |->
            IF v.metadata[k].kind = "tuple"
            THEN PyList(v.metadata[k].items)
            ELSE v.metadata[k]]]

\* The load() whose outcome is held followed a completed save() under the
\* same prefix, with no save() begun in between.
LoadedAfterSave == loaded # NoLoaded /\ loaded.path = last_saved

\* C11 as claimed: load(p) right after a completed save(v, p) returns a
\* vector equal to v in its tensor, layer, layer_name, model_name, method,
\* magnitude, every metadata entry and created_at.
C11_RoundTrip ==
    LoadedAfterSave => loaded = Loaded(last_saved, "ok", saved[last_saved])

\* C11 amended: load(p) right after a completed save(v, p) returns v with
\* its tensor, layer, layer_name, model_name, method, magnitude and
\* created_at as saved, and every metadata entry as saved except that a
\* tuple comes back as a list; so it returns v itself when the metadata
\* hold no tuple.
C11_RoundTripJson ==
    LoadedAfterSave
    => /\ loaded = Loaded(last_saved, "ok", AsReloaded(saved[last_saved]))
       /\ JsonNative(saved[last_saved]) => loaded.vector = saved[last_saved]

\* C11 witness: a vector with an int and a list in its metadata, saved under
\* a prefix with a dot in its name and loaded back equal.
C11_Witness ==
    /\ LoadedAfterSave
    /\ loaded.path.suffix = ".v2"
    /\ loaded.result = "ok"
    /\ loaded.vector = saved[last_saved]
    /\ loaded.vector.created_at = 2
    /\ loaded.vector.metadata["tags"] = PyList(<< 1, 2 >>)

plus_suffix(path, suffix) == [stem |-> path.stem \o path.suffix, suffix |-> suffix]

\* C13 as claimed: a save(v, p) under way has created the file p + ".json";
\* and load(p) returns the vector last saved under p, whatever has been
\* saved under other prefixes since.
C13_PrefixesApart ==
    /\ save_pc # "idle"
       => /\ plus_suffix(save_arg.path, ".json") \in DOMAIN fs
          /\ fs[plus_suffix(save_arg.path, ".json")].kind # "absent"
    /\ (loaded # NoLoaded /\ saved[loaded.path] # NoSavedVector)
       => loaded = Loaded(loaded.path, "ok", AsReloaded(saved[loaded.path]))

---------------------------------------------------------------------------
(* Claims about the vector functions (specification SpecVec) *)

\* C12 as claimed: every SteeringVector that construction (with or without
\* a magnitude argument), to_device and the composition functions produce
\* has a magnitude that is the L2 norm of its tensor, and is not negative.
C12_MagnitudeIsNorm ==
    \A i \in 1..Len(vec_out.vectors) :
        /\ vec_out.vectors[i].magnitude = norm(vec_out.vectors[i].tensor)
        /\ vec_out.vectors[i].magnitude >= 0

\* The arguments of a detect_conflicts call: its index pairs i < j (indices
\* from 0) of compatible shapes, and those among them it is to report.
SameShape(i, j) ==
    Len(vec_in.vectors[i + 1].tensor) = Len(vec_in.vectors[j + 1].tensor)

Cosine(i, j) == compute_similarity(vec_in.vectors[i + 1], vec_in.vectors[j + 1]).val

DuePairs ==
    { p \in (0 .. Len(vec_in.vectors) - 1) \X (0 .. Len(vec_in.vectors) - 1) :
        /\ p[1] < p[2]
        /\ SameShape(p[1], p[2])
        /\ Abs(Cosine(p[1], p[2])) >= vec_in.threshold }

\* C18: for every list of vectors and every threshold detect_conflicts
\* returns the triples (i, j, s) exactly for the pairs i < j of compatible
\* shapes whose cosine similarity s has |s| >= threshold, each once and in
\* lexicographic order of (i, j); fewer than two vectors give the empty list.
C18_ConflictsExact ==
    (vec_in.op = "detect_conflicts" /\ vec_out # NoVecOut)
    => LET c == vec_out.conflicts
       IN  /\ vec_out.result = "ok"
           /\ Len(c) = Cardinality(DuePairs)
           /\ \A a \in 1..Len(c) :
                 /\ << c[a][1], c[a][2] >> \in DuePairs
                 /\ c[a][3] = Cosine(c[a][1], c[a][2])
           /\ \A a, b \in 1..Len(c) :
                 a < b => \/ c[a][1] < c[b][1]
                          \/ c[a][1] = c[b][1] /\ c[a][2] < c[b][2]
           /\ Len(vec_in.vectors) < 2 => c = << >>

\* The arguments of a weighted_sum call and what the claims say of them.
SumEmpty == vec_in.vectors = << >>
SumWeights ==
    IF vec_in.weights.given THEN vec_in.weights.val
    ELSE [i \in 1..Len(vec_in.vectors) |-> 1]
SumWeightCount == vec_in.weights.given /\ Len(vec_in.weights.val) # Len(vec_in.vectors)
SumIncompatible ==
    \E i \in 2..Len(vec_in.vectors) :
        \/ vec_in.vectors[i].layer # vec_in.vectors[1].layer
        \/ Len(vec_in.vectors[i].tensor) # Len(vec_in.vectors[1].tensor)

C20_SumErrors ==
    (vec_in.op = "weighted_sum" /\ vec_out # NoVecOut)
    => /\ vec_out.result = "ok"
          => ~SumEmpty /\ ~SumWeightCount /\ ~SumIncompatible
       /\ (SumEmpty \/ SumWeightCount \/ SumIncompatible)
          => vec_out.result \in
                (IF SumEmpty THEN {"Empty"} ELSE {})
                  \cup (IF SumWeightCount THEN {"WeightCountMismatch"} ELSE {})
                  \cup (IF SumIncompatible THEN {"Incompatible"} ELSE {})
       /\ vec_out.result # "ok" => vec_out.vectors = << >>

\* weighted_sum has refused two vectors of one shape at layers 0 and 1, with
\* a weight for each, as Incompatible.
C20_Witness ==
    /\ vec_in.op = "weighted_sum"
    /\ Len(vec_in.vectors) = 2
    /\ vec_in.vectors[1].layer # vec_in.vectors[2].layer
    /\ vec_in.vectors[1].tensor = vec_in.vectors[2].tensor
    /\ vec_in.weights = Given(<< 2, -1 >>)
    /\ vec_out.result = "Incompatible"
    /\ vec_out.vectors = << >>

---------------------------------------------------------------------------
(* Claims about orthogonalize (specification SpecOrtho) *)

\* Linear dependence of the integer tensors handed in, for tensors of up to
\* three elements and up to two predecessors.
IsZero(a) == \A k \in 1..Len(a) : a[k] = 0

Parallel(a, b) == \A k, l \in 1..Len(a) : a[k] * b[l] = a[l] * b[k]

Det3(a, b, c) ==
    a[1] * (b[2] * c[3] - b[3] * c[2]) - a[2] * (b[1] * c[3] - b[3] * c[1])
      + a[3] * (b[1] * c[2] - b[2] * c[1])

\* the i-th vector of the call lies in the span of those before it
InSpan(i) ==
    LET v == vec_in.vectors[i].tensor
        nz == { j \in 1..(i - 1) : ~IsZero(vec_in.vectors[j].tensor) }
        crossed == { pq \in nz \X nz :
                        ~Parallel(vec_in.vectors[pq[1]].tensor,
                                  vec_in.vectors[pq[2]].tensor) }
    IN  IF nz = {} THEN IsZero(v)
        ELSE IF crossed = {}
        THEN Parallel(v, vec_in.vectors[CHOOSE j \in nz : TRUE].tensor)
        ELSE IF Len(v) = 2 THEN TRUE
        ELSE LET pq == CHOOSE x \in crossed : TRUE
             IN  Det3(vec_in.vectors[pq[1]].tensor, vec_in.vectors[pq[2]].tensor, v) = 0

\* the call was given at least two linearly independent vectors
TwoIndependent ==
    \E i, j \in 1..Len(vec_in.vectors) :
        ~Parallel(vec_in.vectors[i].tensor, vec_in.vectors[j].tensor)

\* 1e-4 and 1.0 as float32
Tolerance == Float(13743895, -37)
FOne == FromInt(1)

\* the cosine of two float tensors, 0.0 when one of them has norm 0
FCosine(a, b) ==
    LET na == FNorm(a)
        nb == FNorm(b)
    IN  IF na.m = 0 \/ nb.m = 0 THEN FZero
        ELSE FDiv(FDot(a, b), FMul(na, nb))

\* C21: orthogonalize returns as many vectors as it was given, in the input
\* order; given at least two linearly independent vectors of one shape and
\* layer, every two distinct outputs are orthogonal (|cos| <= 1e-4), the
\* output for an input vector in the span of its predecessors is the zero
\* vector and every other output has norm 1 (within 1e-4).
C21_Orthonormal ==
    (vec_in.op = "orthogonalize" /\ vec_out.result = "ok")
    => LET outs == vec_out.vectors
       IN  /\ Len(outs) = Len(vec_in.vectors)
           /\ TwoIndependent
              => /\ \A i, j \in 1..Len(outs) :
                       i # j => FLessEq(FAbs(FCosine(outs[i].tensor, outs[j].tensor)),
                                        Tolerance)
                 /\ \A i \in 1..Len(outs) :
                       IF InSpan(i)
                       THEN \A k \in 1..Len(outs[i].tensor) : outs[i].tensor[k].m = 0
                       ELSE FLessEq(FAbs(FSub(FNorm(outs[i].tensor), FOne)),
                                    Tolerance)

\* C29: for every input list and every index i the i-th output of
\* orthogonalize describes the i-th input: its method is the input's method
\* followed by "_orthogonalized", its metadata entry original_method is the
\* input's method and its metadata entry position is i, whatever the input
\* vector's own metadata holds.
C29_OutputDescribesInput ==
    (vec_in.op = "orthogonalize" /\ vec_out.result = "ok")
    => \A i \in 1..Len(vec_in.vectors) :
          /\ vec_out.vectors[i].method = vec_in.vectors[i].method \o "_orthogonalized"
          /\ vec_out.vectors[i].metadata["original_method"]
                = PyStr(vec_in.vectors[i].method)
          /\ vec_out.vectors[i].metadata["position"] = PyInt(i - 1)

---------------------------------------------------------------------------
(* Claims about Discovery (specification SpecDisc) *)

\* C15: during activation extraction the capturing hook is registered on the
\* target block once per batch and removed before the next batch starts and
\* before the call exits: between batches, and after _extract_activations
\* has returned or raised (NoActivationCaptured or the forward pass's own
\* exception), the block carries no hook of Discovery, and it never carries
\* more than one.
C15_HookPerBatch ==
    /\ target_hooks <= 1
    /\ disc_pc.step = "forward" => target_hooks = 1
    /\ disc_pc.step # "forward" => target_hooks = 0
    /\ registrations = forward_passes + (IF disc_pc.step = "forward" THEN 1 ELSE 0)

\* The second batch of an extraction has captured nothing: the call has
\* raised NoActivationCaptured after two registrations and two forward passes.
C15_Witness ==
    /\ disc_out.result = "NoActivationCaptured"
    /\ disc_pc.phase = "done"
    /\ registrations = 2
    /\ forward_passes = 2
    /\ target_hooks = 0

\* The inputs the three methods reject.
EmptyExamples == disc_in.positive = << >> \/ disc_in.negative = << >>
InvalidLayer ==
    \/ ~disc_in.layer.int
    \/ disc_in.layer.val < 0
    \/ disc_in.layer.val >= NumLayers
SizeMismatch ==
    disc_in.op = "caa" /\ Len(disc_in.positive) # Len(disc_in.negative)

\* C16: mean_difference, caa and linear_probe validate their inputs before
\* touching the model: with an empty positive or negative list, a layer that
\* is not a non-negative integer or is >= num_layers, or for caa lists of
\* unequal length, the call registers no hook and runs no forward pass at any
\* time, and it ends with the error of one of the conditions that hold (the
\* error of the condition when one alone holds) and without a SteeringVector.
C16_ValidatedFirst ==
    (EmptyExamples \/ InvalidLayer \/ SizeMismatch)
    => /\ registrations = 0 /\ forward_passes = 0 /\ target_hooks = 0
       /\ disc_pc.phase \in {"call", "done"}
       /\ disc_pc.phase = "done"
          => /\ disc_out.vector = NoSavedVector
             /\ disc_out.result \in
                   (IF EmptyExamples THEN {"EmptyExamples"} ELSE {})
                     \cup (IF InvalidLayer THEN {"InvalidLayer"} ELSE {})
                     \cup (IF SizeMismatch THEN {"SizeMismatch"} ELSE {})

\* A caa call with two positive texts, one negative text and a valid layer
\* has ended with SizeMismatch.
C16_Witness ==
    /\ disc_in.op = "caa"
    /\ Len(disc_in.positive) = 2 /\ Len(disc_in.negative) = 1
    /\ disc_in.layer = IntLayer(0)
    /\ disc_pc.phase = "done"
    /\ disc_out = DiscRet("SizeMismatch", NoSavedVector)
    /\ forward_passes = 0

\* The activation the hook captures for one text.
Captured(text) == MeanDim1(<< TokenStates(text) >>)[1]

\* C17: for equally long positive and negative lists with captured
\* activations a_i and b_i, a_i and b_i being those of the i-th positive and
\* the i-th negative text, caa returns the mean over i of (a_i - b_i), with
\* method "caa" and the layer of the call.
C17_CaaMeanOfContrasts ==
    (disc_in.op = "caa" /\ disc_pc.phase = "done"
        /\ pos_activations # << >> /\ neg_activations # << >>)
    => LET n == Len(pos_activations)
       IN  /\ disc_out.result = "ok"
           /\ Len(neg_activations) = n
           /\ \A i \in 1..n :
                 /\ pos_activations[i] = Captured(disc_in.positive[i])
                 /\ neg_activations[i] = Captured(disc_in.negative[i])
           /\ Len(disc_out.vector.tensor) = HiddenSize
           /\ \A k \in 1..HiddenSize :
                 n * disc_out.vector.tensor[k]
                   = SumSeq([i \in 1..n |->
                                pos_activations[i][k] - neg_activations[i][k]])
           /\ disc_out.vector.method = "caa"
           /\ disc_out.vector.layer = disc_in.layer.val

\* caa over two pairs in batches of one has returned a vector that is not the
\* zero vector.
C17_Witness ==
    /\ disc_in.op = "caa"
    /\ disc_in.batch_size = 1
    /\ disc_out.result = "ok"
    /\ Len(pos_activations) = 2
    /\ disc_out.vector.tensor[1] = 10
    /\ disc_out.vector.method = "caa"

\* math.ceil(n / b) for positive b
Ceil(n, b) == (n + b - 1) \div b

\* The rows an extraction over `texts` is to return: the captured activation
\* of each text, in the order of the texts.
Rows(texts) == [i \in 1..Len(texts) |-> Captured(texts[i])]

C24_TrainingFailed ==
    (disc_in.op = "linear_probe" /\ disc_pc.phase = "done"
        /\ pos_activations # << >> /\ neg_activations # << >>)
    => IF disc_in.fit = "converged"
       THEN disc_out.result = "ok"
       ELSE disc_out = DiscRet("TrainingFailed", NoSavedVector)

\* C30: when caa with num_pairs = k on n pairs returns a vector, it has used
\* the first min(k, n) positive and the first min(k, n) negative examples, at
\* least one pair, and the vector's metadata gives that count as
\* contrast_pairs.
C30_NumPairs ==
    (disc_in.op = "caa" /\ disc_in.num_pairs.given /\ disc_pc.phase = "done"
        /\ disc_out.result = "ok")
    => LET k == disc_in.num_pairs.val
           n == Len(disc_in.positive)
           used == IF k < n THEN k ELSE n
       IN  /\ used >= 1
           /\ Len(pos_activations) = used
           /\ Len(neg_activations) = used
           /\ \A i \in 1..Len(pos_activations) :
                 /\ pos_activations[i] = Captured(disc_in.positive[i])
                 /\ neg_activations[i] = Captured(disc_in.negative[i])
           /\ disc_out.vector.metadata["contrast_pairs"] = PyInt(used)

===========================================================================
